---------------------------- MODULE Spec2Model ----------------------------
(***************************************************************************)
(* Model of the tool-invocation argument resolver of SWE-agent-UE:         *)
(*   tools/unreal_mcp/utils/params_parser.py   (layered resolver)          *)
(*   tools/unreal_mcp/utils/argparse_parser.py (CLI-style flag parser)     *)
(*                                                                         *)
(* A Python str is a sequence of Unicode code points (naturals).  A Python *)
(* value is a tagged pair <<tag, payload>>:                                *)
(*   <<"none", 0>>  <<"bool", b>>  <<"num", n>>  <<"float", lexeme>>       *)
(*   <<"str", s>>   <<"arr", seq>> <<"obj", {<<key, value>>, ...}>>         *)
(* An exception escaping a function is the value <<"raise", kind>>.        *)
(***************************************************************************)
EXTENDS Integers, Sequences, FiniteSets, TLC

VARIABLES
  shape,   \* how the argument text was put together (names the input family)
  parts,   \* the pieces the argument text was put together from
  raw,     \* the argument text handed to the parser
  tool,    \* the tool name handed to the parser
  pc,      \* position inside the call
  s_norm,  \* robust_parse_third_arg's local s: the normalized text
  out,     \* the value returned (or the exception raised) by the call
  args_list, \* _parse_cli_style's args_list: the tokens of the text
  arg_i,     \* _parse_cli_style's i, counted from 1
  result     \* _parse_cli_style's result: the items of the dict being built
vars == <<shape, parts, raw, tool, pc, s_norm, out, args_list, arg_i, result>>
cli_vars == <<args_list, arg_i, result>>

(***************************************************************************)
(* Characters.                                                             *)
(***************************************************************************)
Ascii ==
  <<"x00", "x01", "x02", "x03", "x04", "x05", "x06", "x07",
     "x08", "\t", "\n", "x0B", "\f", "\r", "x0E", "x0F",
     "x10", "x11", "x12", "x13", "x14", "x15", "x16", "x17",
     "x18", "x19", "x1A", "x1B", "x1C", "x1D", "x1E", "x1F",
     " ", "!", "x22", "#", "$", "%", "&", "x27",
     "(", ")", "*", "+", ",", "-", ".", "/",
     "0", "1", "2", "3", "4", "5", "6", "7",
     "8", "9", ":", ";", "<", "=", ">", "?",
     "@", "A", "B", "C", "D", "E", "F", "G",
     "H", "I", "J", "K", "L", "M", "N", "O",
     "P", "Q", "R", "S", "T", "U", "V", "W",
     "X", "Y", "Z", "[", "x5C", "]", "^", "_",
     "x60", "a", "b", "c", "d", "e", "f", "g",
     "h", "i", "j", "k", "l", "m", "n", "o",
     "p", "q", "r", "s", "t", "u", "v", "w",
     "x", "y", "z", "{", "|", "}", "~", "x7F" >>

\* ord(c) of a one-character string
Ord(c) == (CHOOSE i \in 1..Len(Ascii) : Ascii[i] = c) - 1

\* the str written as a tuple of one-character strings
Cs(t) == [i \in 1..Len(t) |-> Ord(t[i])]

LBRACE == Ord("{")
RBRACE == Ord("}")
LBRACK == Ord("[")
RBRACK == Ord("]")
DQ == Ord("x22")
SQ == Ord("x27")
BSL == Ord("x5C")
BTICK == Ord("x60")
NL == Ord("\n")
CR == Ord("\r")
TAB == Ord("\t")
SP == Ord(" ")
COLON == Ord(":")
COMMA == Ord(",")
MINUS == Ord("-")
PLUS == Ord("+")
DOT == Ord(".")
EQ == Ord("=")
PCT == Ord("%")
USCORE == Ord("_")

\* ZERO_WIDTH: U+200B, U+200C, U+200D, U+2060, U+FEFF
ZWSP == 8203
ZWNJ == 8204
ZWJ == 8205
WJ == 8288
BOM == 65279
ZERO_WIDTH == <<ZWSP, ZWNJ, ZWJ, WJ, BOM>>

\* SMART_QUOTES: U+201C U+201D U+201E U+201F -> '"', U+2018 U+2019 U+201A U+201B -> "'"
LDQUO == 8220
RDQUO == 8221
BDQUO == 8222
HDQUO == 8223
LSQUO == 8216
RSQUO == 8217
BSQUO == 8218
HSQUO == 8219
SMART_QUOTES ==
  << <<LDQUO, DQ>>, <<RDQUO, DQ>>, <<BDQUO, DQ>>, <<HDQUO, DQ>>,
     <<LSQUO, SQ>>, <<RSQUO, SQ>>, <<BSQUO, SQ>>, <<HSQUO, SQ>> >>

IsDigit(c) == c >= 48 /\ c <= 57
IsUpper(c) == c >= 65 /\ c <= 90
IsLower(c) == c >= 97 /\ c <= 122
IsAlpha(c) == IsUpper(c) \/ IsLower(c)
IsAlnum(c) == IsAlpha(c) \/ IsDigit(c)
\* \w of a str pattern: str.isalnum() or '_'.  Exact below U+0100; above it,
\* the code points the model draws (zero-width characters, typographic quotes,
\* Unicode spaces, U+FFFD) are not word characters.
IsWord(c) ==
  \/ IsAlnum(c)
  \/ c = USCORE
  \/ c \in {170, 178, 179, 181, 185, 186, 188, 189, 190}
  \/ (c >= 192 /\ c <= 255 /\ c # 215 /\ c # 247)
\* str.isspace(), which is also \s of a str pattern
IsSpace(c) ==
  \/ c \in {9, 10, 11, 12, 13, 28, 29, 30, 31, 32, 133, 160, 5760}
  \/ (c >= 8192 /\ c <= 8202)
  \/ c \in {8232, 8233, 8239, 8287, 12288}
DigitVal(c) == c - 48
ToLower(c) == IF IsUpper(c) THEN c + 32 ELSE c

(***************************************************************************)
(* Loops over the positions of a text.                                     *)
(***************************************************************************)
\* Step folded over the positions lo..hi, left to right, from the state st.
\* The range is halved, and the state after the left half is computed
\* before the right half is entered.
RECURSIVE Fold(_, _, _, _)
Fold(Step(_, _), st, lo, hi) ==
  LET Right(left) == Fold(Step, left, (lo + hi) \div 2 + 1, hi)
  IN IF lo > hi THEN st
     ELSE IF lo = hi THEN Step(st, lo)
     ELSE CHOOSE r \in {Right(v) : v \in {Fold(Step, st, lo, (lo + hi) \div 2)}} : TRUE

\* a loop that moves its own position: a state says where the loop goes on
\* (st.at) and whether it is over (st.done), and Step runs at the
\* positions the states ask for
Scan(Step(_, _), st, lo, hi) ==
  LET Guarded(t, k) == IF t.done \/ k # t.at THEN t ELSE Step(t, k)
  IN Fold(Guarded, st, lo, hi)

\* the least k in lo..hi with P(k); past the range when there is none
Least(P(_), lo, hi) ==
  IF \E k \in lo..hi : P(k)
  THEN CHOOSE k \in lo..hi : P(k) /\ \A j \in lo..(k - 1) : ~P(j)
  ELSE IF lo > hi THEN lo ELSE hi + 1
\* the greatest k in lo..hi with P(k); before the range when there is none
Greatest(P(_), lo, hi) ==
  IF \E k \in lo..hi : P(k)
  THEN CHOOSE k \in lo..hi : P(k) /\ \A j \in (k + 1)..hi : ~P(j)
  ELSE IF lo > hi THEN hi ELSE lo - 1

(***************************************************************************)
(* str methods.                                                            *)
(***************************************************************************)
Slice(s, i, j) == SubSeq(s, i, j)
From(s, i) == SubSeq(s, i, Len(s))
\* s.startswith(p, i-1): p occurs in s at (1-based) position i
MatchAt(s, p, i) ==
  /\ i >= 1
  /\ i + Len(p) - 1 <= Len(s)
  /\ \A k \in 1..Len(p) : s[i + k - 1] = p[k]
StartsWith(s, p) == MatchAt(s, p, 1)
EndsWith(s, p) == MatchAt(s, p, Len(s) - Len(p) + 1)

\* the least 1-based position >= i where p occurs in s, 0 when there is none
FindFrom(s, p, i) ==
  LET Hit(k) == MatchAt(s, p, k)
      Found(k) == IF k > Len(s) + 1 THEN 0 ELSE k
  IN IF i > Len(s) + 1 THEN 0 ELSE Found(Least(Hit, i, Len(s) + 1))
\* s.find(p) + 1
Find(s, p) == FindFrom(s, p, 1)
Contains(s, p) == Find(s, p) > 0

\* s.replace(old, new) for non-empty old: left to right, non-overlapping
Replace(s, old, new) ==
  LET Step(st, k) ==
        IF MatchAt(s, old, k) THEN [at |-> k + Len(old), done |-> FALSE, acc |-> st.acc \o new]
        ELSE [at |-> k + 1, done |-> FALSE, acc |-> Append(st.acc, s[k])]
  IN Scan(Step, [at |-> 1, done |-> FALSE, acc |-> <<>>], 1, Len(s)).acc

\* the position of the first character at or after i that is not whitespace
LStripIdx(s, i) ==
  LET NotSpace(k) == ~IsSpace(s[k]) IN Least(NotSpace, i, Len(s))
\* the position of the last character at or before j that is not whitespace
RStripIdx(s, j) ==
  LET NotSpace(k) == ~IsSpace(s[k]) IN Greatest(NotSpace, 1, j)
LStrip(s) == From(s, LStripIdx(s, 1))
RStrip(s) == Slice(s, 1, RStripIdx(s, Len(s)))
Strip(s) == RStrip(LStrip(s))
Lower(s) == [i \in 1..Len(s) |-> ToLower(s[i])]

\* min of a non-empty set of integers
Min(S) == CHOOSE m \in S : \A x \in S : m <= x

(***************************************************************************)
(* params_parser._normalize                                                *)
(***************************************************************************)
\* for z in ZERO_WIDTH: s = s.replace(z, '')
StripZeroWidth(s) == SelectSeq(s, LAMBDA c : \A k \in 1..Len(ZERO_WIDTH) : c # ZERO_WIDTH[k])

\* for k, v in SMART_QUOTES.items(): s = s.replace(k, v)
ReplaceSmartQuotes(s) ==
  LET Plain(c) ==
        IF \E k \in 1..Len(SMART_QUOTES) : SMART_QUOTES[k][1] = c
        THEN SMART_QUOTES[CHOOSE k \in 1..Len(SMART_QUOTES) : SMART_QUOTES[k][1] = c][2]
        ELSE c
  IN [k \in 1..Len(s) |-> Plain(s[k])]

FENCE3 == <<BTICK, BTICK, BTICK>>

\* the places (1-based) of the first '{', '[' and "```" that occur
JsonLikeHits(trimmed) ==
  {i \in {Find(trimmed, <<LBRACE>>), Find(trimmed, <<LBRACK>>),
          Find(trimmed, FENCE3)} : i > 0}

\* (an index that is one too far: the cut drops the first token's character)
FirstJsonLikePast(trimmed) ==
  IF JsonLikeHits(trimmed) = {} THEN 0 ELSE Min(JsonLikeHits(trimmed))
\* min([i for i in [find('{'), find('['), find('```')] if i >= 0] or [0]), 0-based
FirstJsonLike(trimmed) ==
  IF JsonLikeHits(trimmed) = {} THEN 0 ELSE Min(JsonLikeHits(trimmed)) - 1

_normalize(s0) ==
  LET s1 == Replace(Replace(s0, <<CR, NL>>, <<NL>>), <<CR>>, <<NL>>)
      s2 == StripZeroWidth(s1)
      s3 == ReplaceSmartQuotes(s2)
      trimmed == LStrip(s3)
      first_json_like == FirstJsonLike(trimmed)
      cut == IF first_json_like > 0 THEN From(trimmed, first_json_like + 1)
             ELSE trimmed
  IN Strip(cut)

\* _strip_outer_quotes
_strip_outer_quotes(s) ==
  IF Len(s) >= 2 /\ ((s[1] = DQ /\ s[Len(s)] = DQ) \/ (s[1] = SQ /\ s[Len(s)] = SQ))
  THEN Slice(s, 2, Len(s) - 1)
  ELSE s

(***************************************************************************)
(* Python values.                                                          *)
(***************************************************************************)
None == <<"none", 0>>
Bool(b) == <<"bool", b>>
Num(n) == <<"num", n>>
Float(lexeme) == <<"float", lexeme>>
Str(s) == <<"str", s>>
Arr(a) == <<"arr", a>>
Obj(f) == <<"obj", f>>
Raise(kind) == <<"raise", kind>>
EmptyDict == Obj({})
IsNone(v) == v[1] = "none"
IsDict(v) == v[1] = "obj"
IsRaise(v) == v[1] = "raise"
\* {k: v}, for a str k
Dict1(k, v) == Obj({<<Str(k), v>>})
\* d[k] = v on the items f of a dict (a key is held once)
Put(f, k, v) == {p \in f : p[1] # k} \cup {<<k, v>>}
Keys(d) == {p[1] : p \in d[2]}
HasKey(d, k) == Str(k) \in Keys(d)
\* d[k], for a str k that d holds
Get(d, k) == (CHOOSE p \in d[2] : p[1] = Str(k))[2]

(***************************************************************************)
(* json.loads: the scanner of the json module (strict mode), by position.  *)
(* A scan yields [ok, v, e]: the value and the position after it.          *)
(* A number with a fraction or an exponent is a float, kept as its lexeme. *)
(***************************************************************************)
Fail == [ok |-> FALSE, v |-> None, e |-> 0]
Ok(v, e) == [ok |-> TRUE, v |-> v, e |-> e]

IsJsonWs(c) == c \in {SP, TAB, NL, CR}
SkipWs(s, i) ==
  LET NotWs(k) == ~IsJsonWs(s[k]) IN Least(NotWs, i, Len(s))

DigitsEnd(s, i) ==
  LET NotDigit(k) == ~IsDigit(s[k]) IN Least(NotDigit, i, Len(s))

RECURSIVE IntOf(_, _, _, _)
IntOf(s, i, j, acc) ==
  IF i >= j THEN acc ELSE IntOf(s, i + 1, j, 10 * acc + DigitVal(s[i]))

IsHex(c) == IsDigit(c) \/ (c >= 65 /\ c <= 70) \/ (c >= 97 /\ c <= 102)
HexVal(c) == IF IsDigit(c) THEN c - 48 ELSE IF c >= 97 THEN c - 87 ELSE c - 55
Hex4At(s, i) == i + 3 <= Len(s) /\ \A k \in 0..3 : IsHex(s[i + k])
Hex4(s, i) ==
  4096 * HexVal(s[i]) + 256 * HexVal(s[i + 1]) + 16 * HexVal(s[i + 2]) + HexVal(s[i + 3])

\* the character a one-letter JSON escape stands for, -1 when it is none
JsonEscape(e) ==
  CASE e = DQ -> DQ
    [] e = BSL -> BSL
    [] e = Ord("/") -> Ord("/")
    [] e = Ord("b") -> 8
    [] e = Ord("f") -> 12
    [] e = Ord("n") -> NL
    [] e = Ord("r") -> CR
    [] e = Ord("t") -> TAB
    [] OTHER -> -1

\* scanstring: i is the position after the opening quote
JString(s, i, acc0) ==
  LET Go(st, n, c) == [at |-> n, done |-> FALSE, ok |-> FALSE, acc |-> Append(st.acc, c)]
      Stop(st, n, ok) == [at |-> n, done |-> TRUE, ok |-> ok, acc |-> st.acc]
      Pair(k, hi) ==
        /\ hi >= 55296 /\ hi <= 56319
        /\ MatchAt(s, <<BSL, Ord("u")>>, k + 6)
        /\ Hex4At(s, k + 8)
        /\ Hex4(s, k + 8) >= 56320 /\ Hex4(s, k + 8) <= 57343
      Unicode(st, k, hi) ==
        IF Pair(k, hi)
        THEN Go(st, k + 12, 65536 + (hi - 55296) * 1024 + (Hex4(s, k + 8) - 56320))
        ELSE Go(st, k + 6, hi)
      Step(st, k) ==
        IF k > Len(s) THEN Stop(st, k, FALSE)
        ELSE IF s[k] = DQ THEN Stop(st, k + 1, TRUE)
        ELSE IF s[k] = BSL THEN
          IF k + 1 > Len(s) THEN Stop(st, k, FALSE)
          ELSE IF s[k + 1] = Ord("u") THEN
            IF ~Hex4At(s, k + 2) THEN Stop(st, k, FALSE)
            ELSE Unicode(st, k, Hex4(s, k + 2))
          ELSE IF JsonEscape(s[k + 1]) < 0 THEN Stop(st, k, FALSE)
          ELSE Go(st, k + 2, JsonEscape(s[k + 1]))
        ELSE IF s[k] < 32 THEN Stop(st, k, FALSE)
        ELSE Go(st, k + 1, s[k])
      Scanned(st) == IF st.done /\ st.ok THEN Ok(Str(st.acc), st.at) ELSE Fail
  IN Scanned(Scan(Step, [at |-> i, done |-> FALSE, ok |-> FALSE, acc |-> acc0],
                  i, Len(s) + 1))

\* _match_number: optional '-', then 0 or a run of digits not starting with 0,
\* then an optional '.' with digits, then an optional e/E, sign and digits
JNumber(s, i) ==
  LET d0 == IF i <= Len(s) /\ s[i] = MINUS THEN i + 1 ELSE i
      Matched(intEnd, fracEnd, expEnd) ==
        IF fracEnd > intEnd \/ expEnd > fracEnd
        THEN Ok(Float(Slice(s, i, expEnd - 1)), expEnd)
        ELSE Ok(Num((IF d0 > i THEN -1 ELSE 1) * IntOf(s, d0, intEnd, 0)), intEnd)
      Exponent(intEnd, fracEnd) ==
        LET e1 == IF fracEnd + 1 <= Len(s) /\ s[fracEnd + 1] \in {PLUS, MINUS}
                  THEN fracEnd + 2 ELSE fracEnd + 1
        IN Matched(intEnd, fracEnd,
             IF /\ fracEnd <= Len(s) /\ s[fracEnd] \in {Ord("e"), Ord("E")}
                /\ e1 <= Len(s) /\ IsDigit(s[e1])
             THEN DigitsEnd(s, e1) ELSE fracEnd)
      Fraction(intEnd) ==
        Exponent(intEnd,
          IF intEnd + 1 <= Len(s) /\ s[intEnd] = DOT /\ IsDigit(s[intEnd + 1])
          THEN DigitsEnd(s, intEnd + 1) ELSE intEnd)
  IN IF ~(d0 <= Len(s) /\ IsDigit(s[d0])) THEN Fail
     ELSE Fraction(IF s[d0] = Ord("0") THEN d0 + 1 ELSE DigitsEnd(s, d0))

RECURSIVE JValue(_, _)
RECURSIVE JObjectRest(_, _, _)
RECURSIVE JArrayRest(_, _, _)

\* scan_once
JValue(s, i) ==
  LET NumberOrConstant(num) ==
        IF num.ok THEN num
        ELSE IF MatchAt(s, Cs(<<"N", "a", "N">>), i)
          THEN Ok(Float(Slice(s, i, i + 2)), i + 3)
        ELSE IF MatchAt(s, Cs(<<"I", "n", "f", "i", "n", "i", "t", "y">>), i)
          THEN Ok(Float(Slice(s, i, i + 7)), i + 8)
        ELSE IF MatchAt(s, Cs(<<"-", "I", "n", "f", "i", "n", "i", "t", "y">>), i)
          THEN Ok(Float(Slice(s, i, i + 8)), i + 9)
        ELSE Fail
      Object(j) ==
        IF j <= Len(s) /\ s[j] = RBRACE THEN Ok(EmptyDict, j + 1)
        ELSE JObjectRest(s, j, {})
      Array(j) ==
        IF j <= Len(s) /\ s[j] = RBRACK THEN Ok(Arr(<<>>), j + 1)
        ELSE JArrayRest(s, j, <<>>)
  IN IF i > Len(s) THEN Fail
     ELSE IF s[i] = DQ THEN JString(s, i + 1, <<>>)
     ELSE IF s[i] = LBRACE THEN Object(SkipWs(s, i + 1))
     ELSE IF s[i] = LBRACK THEN Array(SkipWs(s, i + 1))
     ELSE IF MatchAt(s, Cs(<<"n", "u", "l", "l">>), i) THEN Ok(None, i + 4)
     ELSE IF MatchAt(s, Cs(<<"t", "r", "u", "e">>), i) THEN Ok(Bool(TRUE), i + 4)
     ELSE IF MatchAt(s, Cs(<<"f", "a", "l", "s", "e">>), i) THEN Ok(Bool(FALSE), i + 5)
     ELSE NumberOrConstant(JNumber(s, i))

\* _parse_object, at the first key: i is past '{' (or ',') and whitespace
JObjectRest(s, i, f) ==
  LET Member(key, val, n) ==
        IF ~val.ok THEN Fail
        ELSE IF n > Len(s) THEN Fail
        ELSE IF s[n] = RBRACE THEN Ok(Obj(Put(f, key.v, val.v)), n + 1)
        ELSE IF s[n] = COMMA
          THEN JObjectRest(s, SkipWs(s, n + 1), Put(f, key.v, val.v))
        ELSE Fail
      Value(key, val) == Member(key, val, SkipWs(s, val.e))
      Colon(key, c) ==
        IF ~key.ok THEN Fail
        ELSE IF ~(c <= Len(s) /\ s[c] = COLON) THEN Fail
        ELSE Value(key, JValue(s, SkipWs(s, c + 1)))
      Key(key) == Colon(key, SkipWs(s, key.e))
  IN IF ~(i <= Len(s) /\ s[i] = DQ) THEN Fail
     ELSE Key(JString(s, i + 1, <<>>))

\* _parse_array, at the first element
JArrayRest(s, i, a) ==
  LET Element(val, n) ==
        IF ~val.ok THEN Fail
        ELSE IF n > Len(s) THEN Fail
        ELSE IF s[n] = RBRACK THEN Ok(Arr(Append(a, val.v)), n + 1)
        ELSE IF s[n] = COMMA THEN JArrayRest(s, SkipWs(s, n + 1), Append(a, val.v))
        ELSE Fail
      Value(val) == Element(val, SkipWs(s, val.e))
  IN Value(JValue(s, i))

\* json.loads(text): the value, or <<"raise", "JSONDecodeError">>
json_loads(text) ==
  LET Loaded(r) ==
        IF StartsWith(text, <<BOM>>) THEN Raise("JSONDecodeError")
        ELSE IF ~r.ok THEN Raise("JSONDecodeError")
        ELSE IF SkipWs(text, r.e) # Len(text) + 1 THEN Raise("JSONDecodeError")
        ELSE r.v
  IN Loaded(JValue(text, SkipWs(text, 1)))

\* _try_json: json.loads, None on any exception
_try_json(text) ==
  LET Caught(v) == IF IsRaise(v) THEN None ELSE v IN Caught(json_loads(text))

(***************************************************************************)
(* CODE_FENCE_RE under re.match: leading whitespace, three backticks, a    *)
(* tag of word characters, whitespace ending in a newline, a lazy body in  *)
(* DOTALL mode, a newline and three backticks.                             *)
(***************************************************************************)
NLFENCE == <<NL>> \o FENCE3

\* the end of a run of [a-zA-Z0-9_]
TagEnd(s, i) ==
  LET NotTag(k) == ~(IsAlnum(s[k]) \/ s[k] = USCORE) IN Least(NotTag, i, Len(s))

Max(S) == CHOOSE m \in S : \A x \in S : m >= x

\* _extract_code_fence: [hit, lang, content]; no hit is (None, None).
\* \s* is greedy: the newline before the body is the last one of the run of
\* whitespace after the tag from which a closing "\n```" can still be reached;
\* the body is lazy: it ends at the first closing "\n```".
NoFence == [hit |-> FALSE, lang |-> <<>>, content |-> <<>>]
\* (the tag as written: an upper-case tag is no longer a JSON tag)
LangAsWritten(tag) == Strip(tag)
\* (m.group(1) or '').lower().strip()
LangOf(tag) == Strip(Lower(tag))
_extract_code_fence(s) ==
  LET open == LStripIdx(s, 1)
      langEnd == TagEnd(s, open + 3)
      wsEnd == LStripIdx(s, langEnd)
      nls == {p \in langEnd..(wsEnd - 1) :
                s[p] = NL /\ FindFrom(s, NLFENCE, p + 1) > 0}
      p == Max(nls)
      close == FindFrom(s, NLFENCE, p + 1)
  IN IF ~MatchAt(s, FENCE3, open) THEN NoFence
     ELSE IF nls = {} THEN NoFence
     ELSE [hit |-> TRUE,
           lang |-> LangOf(Slice(s, open + 3, langEnd - 1)),
           content |-> Slice(s, p + 1, close - 1)]

(***************************************************************************)
(* _extract_first_balanced_json: the scanner's loop, one character a step. *)
(* st = [in_str, esc, quote, depth, start]; returns the segment or None.   *)
(***************************************************************************)
NoSegment == [found |-> FALSE, seg |-> <<>>]
BalancedScan(text, i, st0) ==
  LET Closed(st, k) ==
        IF st.depth - 1 = 0 /\ st.start # 0
             /\ ~IsNone(_try_json(Slice(text, st.start, k)))
        THEN [st EXCEPT !.found = TRUE, !.seg = Slice(text, st.start, k)]
        ELSE [st EXCEPT !.depth = @ - 1]
      Step(st, k) ==
        IF st.found THEN st
        ELSE IF ~st.in_str /\ text[k] \in {LBRACE, LBRACK} THEN
          [st EXCEPT !.start = IF st.depth = 0 THEN k ELSE @, !.depth = @ + 1]
        ELSE IF ~st.in_str /\ text[k] \in {RBRACE, RBRACK} THEN
          IF st.depth > 0 THEN Closed(st, k) ELSE st
        ELSE IF text[k] \in {DQ, SQ} THEN
          IF ~st.in_str
          THEN [st EXCEPT !.in_str = TRUE, !.quote = text[k], !.esc = FALSE]
          ELSE [st EXCEPT !.in_str = IF ~st.esc /\ text[k] = st.quote THEN FALSE ELSE @,
                          !.esc = FALSE]
        ELSE IF text[k] = BSL /\ st.in_str THEN [st EXCEPT !.esc = ~@]
        ELSE [st EXCEPT !.esc = FALSE]
      Returned(st) == [found |-> st.found, seg |-> st.seg]
  IN Returned(Fold(Step, st0, i, Len(text)))

_extract_first_balanced_json(text) ==
  BalancedScan(text, 1,
    [in_str |-> FALSE, esc |-> FALSE, quote |-> 0, depth |-> 0, start |-> 0,
     found |-> FALSE, seg |-> <<>>])

\* _maybe_path_arg: {"path": ss} when the stripped text ends with ".py"
_maybe_path_arg(s) ==
  IF EndsWith(Strip(s), Cs(<<".", "p", "y">>))
  THEN Dict1(Cs(<<"p", "a", "t", "h">>), Str(Strip(s)))
  ELSE None

(***************************************************************************)
(* bytes.decode('utf-8', errors): errors is "ignore" or "replace".  A byte *)
(* string is a sequence of naturals below 256.                             *)
(***************************************************************************)
REPLACEMENT == 65533
IsCont(b, i) == i <= Len(b) /\ b[i] >= 128 /\ b[i] <= 191
\* the second byte of a multi-byte sequence is in the range its lead allows
Second(b, i, lo, hi) == i <= Len(b) /\ b[i] >= lo /\ b[i] <= hi
OnError(errors) == IF errors = "replace" THEN <<REPLACEMENT>> ELSE <<>>

Utf8Decode(b, i, errors) ==
  LET Go(st, n, cs) == [at |-> n, done |-> FALSE, acc |-> st.acc \o cs]
      Bad(st, k, n) == Go(st, k + n, OnError(errors))
      Lo2(c) == IF c = 224 THEN 160 ELSE IF c = 240 THEN 144 ELSE 128
      Hi2(c) == IF c = 237 THEN 159 ELSE IF c = 244 THEN 143 ELSE 191
      Lead(st, k, c) ==
        IF c < 128 THEN Go(st, k + 1, <<c>>)
        ELSE IF c < 194 \/ c > 244 THEN Bad(st, k, 1)
        ELSE IF c < 224 THEN
          IF IsCont(b, k + 1)
          THEN Go(st, k + 2, <<(c - 192) * 64 + (b[k + 1] - 128)>>)
          ELSE Bad(st, k, 1)
        ELSE IF c < 240 THEN
          IF ~Second(b, k + 1, Lo2(c), Hi2(c)) THEN Bad(st, k, 1)
          ELSE IF ~IsCont(b, k + 2) THEN Bad(st, k, 2)
          ELSE Go(st, k + 3,
                  <<(c - 224) * 4096 + (b[k + 1] - 128) * 64 + (b[k + 2] - 128)>>)
        ELSE
          IF ~Second(b, k + 1, Lo2(c), Hi2(c)) THEN Bad(st, k, 1)
          ELSE IF ~IsCont(b, k + 2) THEN Bad(st, k, 2)
          ELSE IF ~IsCont(b, k + 3) THEN Bad(st, k, 3)
          ELSE Go(st, k + 4,
                  <<(c - 240) * 262144 + (b[k + 1] - 128) * 4096
                      + (b[k + 2] - 128) * 64 + (b[k + 3] - 128)>>)
      Step(st, k) == Lead(st, k, b[k])
  IN Scan(Step, [at |-> i, done |-> FALSE, acc |-> <<>>], i, Len(b)).acc

\* str.encode('utf-8') of one code point (a surrogate cannot be encoded)
IsSurrogate(c) == c >= 55296 /\ c <= 57343
Utf8Bytes(c) ==
  IF c < 128 THEN <<c>>
  ELSE IF c < 2048 THEN <<192 + (c \div 64), 128 + (c % 64)>>
  ELSE IF c < 65536
    THEN <<224 + (c \div 4096), 128 + ((c \div 64) % 64), 128 + (c % 64)>>
  ELSE <<240 + (c \div 262144), 128 + ((c \div 4096) % 64),
         128 + ((c \div 64) % 64), 128 + (c % 64)>>
Utf8Encode(s, i) ==
  LET Step(acc, k) == acc \o Utf8Bytes(s[k]) IN Fold(Step, <<>>, i, Len(s))

(***************************************************************************)
(* urllib.parse.unquote_plus                                               *)
(***************************************************************************)
\* unquote_to_bytes of an ASCII run: %xx with two hex digits is one byte
UnquoteToBytes(s, i) ==
  LET Step(st, k) ==
        IF s[k] = PCT /\ k + 2 <= Len(s) /\ IsHex(s[k + 1]) /\ IsHex(s[k + 2])
        THEN [at |-> k + 3, done |-> FALSE,
              acc |-> Append(st.acc, 16 * HexVal(s[k + 1]) + HexVal(s[k + 2]))]
        ELSE [at |-> k + 1, done |-> FALSE, acc |-> Append(st.acc, s[k])]
  IN Scan(Step, [at |-> i, done |-> FALSE, acc |-> <<>>], i, Len(s)).acc

AsciiRunEnd(s, i) ==
  LET NotAscii(k) == s[k] >= 128 IN Least(NotAscii, i, Len(s))

\* unquote: each maximal run of ASCII is unquoted to bytes and decoded as
\* UTF-8 with errors='replace'; the other characters are kept
UnquoteRuns(s, i) ==
  LET Run(st, k, j) ==
        [at |-> j, done |-> FALSE,
         acc |-> st.acc \o Utf8Decode(UnquoteToBytes(Slice(s, k, j - 1), 1), 1, "replace")]
      Step(st, k) ==
        IF s[k] >= 128 THEN [at |-> k + 1, done |-> FALSE, acc |-> Append(st.acc, s[k])]
        ELSE Run(st, k, AsciiRunEnd(s, k))
  IN Scan(Step, [at |-> i, done |-> FALSE, acc |-> <<>>], i, Len(s)).acc

unquote(string) ==
  IF ~Contains(string, <<PCT>>) THEN string ELSE UnquoteRuns(string, 1)

unquote_plus(string) == unquote(Replace(string, <<PLUS>>, <<SP>>))

(***************************************************************************)
(* base64.b64decode(s, validate=True): binascii.a2b_base64 in strict mode. *)
(* The result is <<"bytes", b>> or <<"raise", kind>>.                      *)
(***************************************************************************)
Bytes(b) == <<"bytes", b>>
\* table_a2b_base64: 64 for a character outside the alphabet
B64Val(c) ==
  IF IsUpper(c) THEN c - 65
  ELSE IF IsLower(c) THEN c - 71
  ELSE IF IsDigit(c) THEN c + 4
  ELSE IF c = PLUS THEN 62
  ELSE IF c = Ord("/") THEN 63
  ELSE 64

\* the decoding loop: q is quad_pos, left is leftchar, pads and started are
\* pads and padding_started, acc the bytes written
A2bLoop(s, i, q, left, pads, started, acc) ==
  LET End(st, r) == [st EXCEPT !.done = TRUE, !.res = r]
      Go(st, k, q2, left2, pads2, started2, acc2) ==
        [at |-> k + 1, done |-> FALSE, res |-> st.res, q |-> q2, left |-> left2,
         pads |-> pads2, started |-> started2, acc |-> acc2]
      Sextet(st, k, v) ==
        CASE st.q = 0 -> Go(st, k, 1, v, 0, st.started, st.acc)
          [] st.q = 1 -> Go(st, k, 2, v % 16, 0, st.started,
                            Append(st.acc, st.left * 4 + (v \div 16)))
          [] st.q = 2 -> Go(st, k, 3, v % 4, 0, st.started,
                            Append(st.acc, st.left * 16 + (v \div 4)))
          [] st.q = 3 -> Go(st, k, 0, 0, 0, st.started,
                            Append(st.acc, st.left * 64 + v))
      Step(st, k) ==
        IF k > Len(s) THEN
          IF st.q # 0 THEN End(st, Raise("binascii.Error")) ELSE End(st, Bytes(st.acc))
        ELSE IF s[k] = EQ THEN
          IF st.q >= 2 /\ st.q + st.pads + 1 >= 4 THEN
            IF k < Len(s) THEN End(st, Raise("binascii.Error")) ELSE End(st, Bytes(st.acc))
          ELSE Go(st, k, st.q, st.left, IF st.q >= 2 THEN st.pads + 1 ELSE st.pads,
                  TRUE, st.acc)
        ELSE IF B64Val(s[k]) >= 64 THEN End(st, Raise("binascii.Error"))
        ELSE IF st.started THEN End(st, Raise("binascii.Error"))
        ELSE Sextet(st, k, B64Val(s[k]))
  IN Scan(Step, [at |-> i, done |-> FALSE, res |-> None, q |-> q, left |-> left,
                 pads |-> pads, started |-> started, acc |-> acc],
          i, Len(s) + 1).res

b64decode(s) ==
  IF \E i \in 1..Len(s) : s[i] >= 128 THEN Raise("ValueError")
  ELSE IF Len(s) > 0 /\ s[1] = EQ THEN Raise("binascii.Error")
  ELSE A2bLoop(s, 1, 0, 0, 0, FALSE, <<>>)

(***************************************************************************)
(* _kvs_fallback                                                           *)
(***************************************************************************)
Unmodelled == <<"unmodelled", 0>>
K_PATH == Cs(<<"p", "a", "t", "h">>)
K_SCRIPT == Cs(<<"s", "c", "r", "i", "p", "t">>)
K_VALUE == Cs(<<"v", "a", "l", "u", "e">>)

NonSpaceEnd(s, i) ==
  LET Space(k) == IsSpace(s[k]) IN Least(Space, i, Len(s))

\* \b<key>\s*=\s* matches at i: the position after it, 0 when it does not
KeyEqAt(s, key, i) ==
  LET e == LStripIdx(s, i + Len(key))
  IN IF /\ MatchAt(s, key, i)
        /\ (i = 1 \/ ~IsWord(s[i - 1]))
        /\ e <= Len(s) /\ s[e] = EQ
     THEN e + 1 ELSE 0

\* re.search(r'\bpath\s*=\s*([^\s]+)', s): group 1 of the leftmost match
SearchPath(s, i) ==
  LET Value(k) == LStripIdx(s, KeyEqAt(s, K_PATH, k))
      Hit(k) == KeyEqAt(s, K_PATH, k) > 0 /\ NonSpaceEnd(s, Value(k)) > Value(k)
      Group(v) == [hit |-> TRUE, g |-> Slice(s, v, NonSpaceEnd(s, v) - 1)]
      Found(k) == IF k > Len(s) THEN [hit |-> FALSE, g |-> <<>>] ELSE Group(Value(k))
  IN Found(Least(Hit, i, Len(s)))

\* re.search(r'\bscript\s*=\s*(.+)$', s, flags=re.S): group 1 of the leftmost
\* match; the greedy \s* gives back one character when nothing follows it
SearchScript(s, i) ==
  LET Hit(k) == KeyEqAt(s, K_SCRIPT, k) > 0 /\ KeyEqAt(s, K_SCRIPT, k) <= Len(s)
      Group(v) == [hit |-> TRUE, g |-> From(s, IF v > Len(s) THEN Len(s) ELSE v)]
      Found(k) ==
        IF k > Len(s) THEN [hit |-> FALSE, g |-> <<>>]
        ELSE Group(LStripIdx(s, KeyEqAt(s, K_SCRIPT, k)))
  IN Found(Least(Hit, i, Len(s)))

_kvs_fallback(s) ==
  LET m_path == SearchPath(s, 1)
      m_script == SearchScript(s, 1)
      body == Strip(m_script.g)
      fence == _extract_code_fence(body)
  IN IF m_path.hit THEN Dict1(K_PATH, Str(_strip_outer_quotes(m_path.g)))
     ELSE IF m_script.hit THEN
       IF fence.hit /\ fence.content # <<>>
       THEN Dict1(K_SCRIPT, Str(fence.content))
       ELSE Dict1(K_SCRIPT, Str(_strip_outer_quotes(body)))
     ELSE None

(***************************************************************************)
(* _decode_unicode_escapes: s.encode('utf-8').decode('unicode_escape'),    *)
(* and s itself when either step raises; the str as the value <<"str", s>>.*)
(***************************************************************************)
IsOct(c) == c >= 48 /\ c <= 55
HexRunAt(b, i, n) == i + n - 1 <= Len(b) /\ \A k \in 0..(n - 1) : IsHex(b[i + k])
RECURSIVE HexN(_, _, _, _)
HexN(b, i, n, acc) ==
  IF n = 0 THEN acc ELSE HexN(b, i + 1, n - 1, 16 * acc + HexVal(b[i]))
MAX_UNICODE == 1114111

\* the one-letter escapes of the codec, -1 when the letter is none of them
CodecEscape(e) ==
  CASE e = BSL -> BSL
    [] e = SQ -> SQ
    [] e = DQ -> DQ
    [] e = Ord("b") -> 8
    [] e = Ord("f") -> 12
    [] e = Ord("t") -> TAB
    [] e = Ord("n") -> NL
    [] e = Ord("r") -> CR
    [] e = Ord("v") -> 11
    [] e = Ord("a") -> 7
    [] OTHER -> -1

\* the codec over the bytes b: <<"str", text>>, <<"raise", ...>>, or Unmodelled
\* for \N{name}, whose table of names is not modelled
UnicodeEscape(b, i, acc0) ==
  LET End(st, r) == [st EXCEPT !.done = TRUE, !.res = r]
      Go(st, n, cs) == [at |-> n, done |-> FALSE, res |-> st.res, acc |-> st.acc \o cs]
      Octal(st, k, e, n) ==
        Go(st, k + 1 + n,
           <<IF n = 1 THEN e - 48
             ELSE IF n = 2 THEN 8 * (e - 48) + (b[k + 2] - 48)
             ELSE 64 * (e - 48) + 8 * (b[k + 2] - 48) + (b[k + 3] - 48)>>)
      Hex(st, k, n) ==
        IF ~HexRunAt(b, k + 2, n) THEN End(st, Raise("UnicodeDecodeError"))
        ELSE IF HexN(b, k + 2, n, 0) > MAX_UNICODE THEN End(st, Raise("UnicodeDecodeError"))
        ELSE Go(st, k + 2 + n, <<HexN(b, k + 2, n, 0)>>)
      Escape(st, k, e) ==
        IF e = NL THEN Go(st, k + 2, <<>>)
        ELSE IF CodecEscape(e) >= 0 THEN Go(st, k + 2, <<CodecEscape(e)>>)
        ELSE IF IsOct(e) THEN
          Octal(st, k, e, IF k + 2 <= Len(b) /\ IsOct(b[k + 2])
                          THEN IF k + 3 <= Len(b) /\ IsOct(b[k + 3]) THEN 3 ELSE 2
                          ELSE 1)
        ELSE IF e \in {Ord("x"), Ord("u"), Ord("U")}
          THEN Hex(st, k, IF e = Ord("x") THEN 2 ELSE IF e = Ord("u") THEN 4 ELSE 8)
        ELSE IF e = Ord("N") THEN End(st, Unmodelled)
        ELSE Go(st, k + 2, <<BSL, e>>)
      Step(st, k) ==
        IF k > Len(b) THEN End(st, Str(st.acc))
        ELSE IF b[k] # BSL THEN Go(st, k + 1, <<b[k]>>)
        ELSE IF k + 1 > Len(b) THEN End(st, Raise("UnicodeDecodeError"))
        ELSE Escape(st, k, b[k + 1])
  IN Scan(Step, [at |-> i, done |-> FALSE, res |-> None, acc |-> acc0],
          i, Len(b) + 1).res

_decode_unicode_escapes(s) ==
  LET d == UnicodeEscape(Utf8Encode(s, 1), 1, <<>>)
  IN IF \E i \in 1..Len(s) : IsSurrogate(s[i]) THEN Str(s)
     ELSE IF IsRaise(d) THEN Str(s)
     ELSE d

(***************************************************************************)
(* ast.literal_eval, on the part of Python's expression grammar that the   *)
(* inputs of this model can spell: dict, set and list displays, string     *)
(* literals (single, double and triple quoted, adjacent ones concatenated),*)
(* decimal integers and floats with an optional sign, True, False, None,   *)
(* comments and line joining.  A construct outside this part that Python   *)
(* may accept (string prefixes, parentheses, complex numbers, digit        *)
(* separators, non-decimal integers, named escapes, the ellipsis, keys     *)
(* that are equal across numeric types) yields Unmodelled, never a guess.  *)
(***************************************************************************)
FailU == [ok |-> FALSE, v |-> Unmodelled, e |-> 0]
HASH == Ord("#")
FF == 12
Set(S) == <<"set", S>>
Complex(lexeme) == <<"complex", lexeme>>
Hashable(v) == v[1] \notin {"obj", "arr", "set"}
IsNumeric(v) == v[1] \in {"num", "bool", "float", "complex"}
IsQuote(c) == c \in {DQ, SQ}
IsIdStart(c) == IsAlpha(c) \/ c = USCORE \/ c >= 128
IsIdChar(c) == IsIdStart(c) \/ IsDigit(c)
IdEnd(s, i) ==
  LET NotId(k) == ~IsIdChar(s[k]) IN Least(NotId, i, Len(s))
StringPrefixes ==
  {Cs(<<"r">>), Cs(<<"u">>), Cs(<<"b">>), Cs(<<"f">>), Cs(<<"b", "r">>),
   Cs(<<"r", "b">>), Cs(<<"f", "r">>), Cs(<<"r", "f">>)}
\* an identifier at i that is a string prefix, with the quote right after it
PrefixedStringAt(s, i) ==
  LET Prefix(e) ==
        e <= Len(s) /\ IsQuote(s[e]) /\ Lower(Slice(s, i, e - 1)) \in StringPrefixes
  IN i <= Len(s) /\ IsIdStart(s[i]) /\ Prefix(IdEnd(s, i))

\* whitespace between tokens inside brackets: blanks, newlines, comments and
\* backslash-newline
PySkip(s, i) ==
  LET Go(n) == [at |-> n, done |-> FALSE]
      Comment(ends) == IF ends = {} THEN Go(Len(s) + 1) ELSE Go(Min(ends))
      Step(st, k) ==
        IF k > Len(s) THEN [at |-> k, done |-> TRUE]
        ELSE IF s[k] \in {SP, TAB, FF, NL, CR} THEN Go(k + 1)
        ELSE IF s[k] = HASH
          THEN Comment({x \in {FindFrom(s, <<NL>>, k), FindFrom(s, <<CR>>, k)} : x > 0})
        ELSE IF s[k] = BSL /\ k + 1 < Len(s) /\ s[k + 1] = NL THEN Go(k + 2)
        ELSE [at |-> k, done |-> TRUE]
  IN Scan(Step, Go(i), i, Len(s) + 1).at

\* the body of a string literal opened by q (three of them when triple)
PyStrBody(s, j, q, triple, acc0) ==
  LET End(st, r) == [st EXCEPT !.done = TRUE, !.res = r]
      Go(st, n, cs) == [at |-> n, done |-> FALSE, res |-> st.res, acc |-> st.acc \o cs]
      Octal(st, k, e, n) ==
        Go(st, k + 1 + n,
           <<IF n = 1 THEN e - 48
             ELSE IF n = 2 THEN 8 * (e - 48) + (s[k + 2] - 48)
             ELSE 64 * (e - 48) + 8 * (s[k + 2] - 48) + (s[k + 3] - 48)>>)
      Coded(st, k, n, c) ==
        IF c > MAX_UNICODE THEN End(st, Fail) ELSE Go(st, k + 2 + n, <<c>>)
      Hex(st, k, n) ==
        IF ~HexRunAt(s, k + 2, n) THEN End(st, Fail)
        ELSE Coded(st, k, n, HexN(s, k + 2, n, 0))
      Simple(st, k, e, c) ==
        IF c >= 0 THEN Go(st, k + 2, <<c>>)
        ELSE IF IsOct(e) THEN
          Octal(st, k, e, IF k + 2 <= Len(s) /\ IsOct(s[k + 2])
                          THEN IF k + 3 <= Len(s) /\ IsOct(s[k + 3]) THEN 3 ELSE 2
                          ELSE 1)
        ELSE IF e \in {Ord("x"), Ord("u"), Ord("U")}
          THEN Hex(st, k, IF e = Ord("x") THEN 2 ELSE IF e = Ord("u") THEN 4 ELSE 8)
        ELSE IF e = Ord("N") THEN End(st, FailU)
        ELSE Go(st, k + 2, <<BSL, e>>)
      Escape(st, k, e) ==
        IF e = NL THEN Go(st, k + 2, <<>>)
        ELSE IF e = CR THEN
          Go(st, IF k + 2 <= Len(s) /\ s[k + 2] = NL THEN k + 3 ELSE k + 2, <<>>)
        ELSE Simple(st, k, e, CodecEscape(e))
      Step(st, k) ==
        IF k > Len(s) THEN End(st, Fail)
        ELSE IF triple /\ MatchAt(s, <<q, q, q>>, k) THEN End(st, Ok(Str(st.acc), k + 3))
        ELSE IF ~triple /\ s[k] = q THEN End(st, Ok(Str(st.acc), k + 1))
        ELSE IF s[k] \in {NL, CR} THEN
          IF ~triple THEN End(st, Fail)
          ELSE IF s[k] = CR /\ k + 1 <= Len(s) /\ s[k + 1] = NL
            THEN Go(st, k + 2, <<NL>>)
          ELSE Go(st, k + 1, <<NL>>)
        ELSE IF s[k] # BSL THEN Go(st, k + 1, <<s[k]>>)
        ELSE IF k + 1 > Len(s) THEN End(st, Fail)
        ELSE Escape(st, k, s[k + 1])
  IN Scan(Step, [at |-> j, done |-> FALSE, res |-> Fail, acc |-> acc0],
          j, Len(s) + 1).res

PyString(s, i) ==
  IF MatchAt(s, <<s[i], s[i], s[i]>>, i)
  THEN PyStrBody(s, i + 3, s[i], TRUE, <<>>)
  ELSE PyStrBody(s, i + 1, s[i], FALSE, <<>>)

\* adjacent string literals are one string
RECURSIVE PyStrings(_, _)
PyStrings(s, i) ==
  LET Joined(first, rest) ==
        IF rest.ok THEN Ok(Str(first.v[2] \o rest.v[2]), rest.e) ELSE rest
      Following(first, k) ==
        IF PrefixedStringAt(s, k) THEN FailU
        ELSE IF k <= Len(s) /\ IsQuote(s[k]) THEN Joined(first, PyStrings(s, k))
        ELSE first
      First(first) == IF ~first.ok THEN first ELSE Following(first, PySkip(s, first.e))
  IN First(PyString(s, i))

NumberAt(s, i) ==
  /\ i <= Len(s)
  /\ (IsDigit(s[i]) \/ (s[i] = DOT /\ i + 1 <= Len(s) /\ IsDigit(s[i + 1])))
At(s, i, C) == i <= Len(s) /\ s[i] \in C

\* a number literal at i: digits, an optional '.' with digits, an optional
\* exponent, an optional j
PyNumber(s, i) ==
  LET Literal(d1, fracEnd, expEnd, end) ==
        IF At(s, d1, {USCORE}) \/ At(s, fracEnd, {USCORE}) \/ At(s, expEnd, {USCORE})
          THEN FailU
        ELSE IF d1 = i + 1 /\ s[i] = Ord("0")
                /\ At(s, d1, {Ord("x"), Ord("X"), Ord("o"), Ord("O"), Ord("b"), Ord("B")})
          THEN FailU
        ELSE IF end <= Len(s) /\ IsIdChar(s[end]) THEN Fail
        ELSE IF end > expEnd THEN Ok(Complex(Slice(s, i, expEnd - 1)), end)
        ELSE IF fracEnd > d1 \/ expEnd > fracEnd
          THEN Ok(Float(Slice(s, i, expEnd - 1)), end)
        ELSE IF d1 - i > 1 /\ s[i] = Ord("0") /\ \E k \in i..(d1 - 1) : s[k] # Ord("0")
          THEN Fail
        ELSE Ok(Num(IntOf(s, i, d1, 0)), end)
      Imaginary(d1, fracEnd, expEnd) ==
        Literal(d1, fracEnd, expEnd,
          IF At(s, expEnd, {Ord("j"), Ord("J")}) THEN expEnd + 1 ELSE expEnd)
      Exponent(d1, fracEnd, e1) ==
        Imaginary(d1, fracEnd,
          IF At(s, fracEnd, {Ord("e"), Ord("E")}) /\ e1 <= Len(s) /\ IsDigit(s[e1])
          THEN DigitsEnd(s, e1) ELSE fracEnd)
      Fraction(d1, fracEnd) ==
        Exponent(d1, fracEnd,
          IF At(s, fracEnd + 1, {PLUS, MINUS}) THEN fracEnd + 2 ELSE fracEnd + 1)
      Digits(d1) == Fraction(d1, IF At(s, d1, {DOT}) THEN DigitsEnd(s, d1 + 1) ELSE d1)
  IN Digits(DigitsEnd(s, i))

\* a number followed by + or - is a BinOp, which literal_eval evaluates only
\* when its right operand is an imaginary literal
NumTail(s, r) ==
  LET Right(num) == IF num.ok /\ num.v[1] = "complex" THEN FailU ELSE Fail
      Operand(k2) == IF NumberAt(s, k2) THEN Right(PyNumber(s, k2)) ELSE Fail
      Operator(k) == IF At(s, k, {PLUS, MINUS}) THEN Operand(PySkip(s, k + 1)) ELSE r
  IN IF ~r.ok THEN r
     ELSE IF r.v[1] = "complex" THEN FailU
     ELSE Operator(PySkip(s, r.e))

Signed(sign, r) ==
  IF ~r.ok THEN r
  ELSE IF r.v[1] = "num" THEN Ok(Num(IF sign = MINUS THEN 0 - r.v[2] ELSE r.v[2]), r.e)
  ELSE IF r.v[1] = "float"
    THEN Ok(Float(IF sign = MINUS THEN <<MINUS>> \o r.v[2] ELSE r.v[2]), r.e)
  ELSE FailU

\* key may be equal, as a Python number, to a key of f that is another value
\* of the model (1, 1.0 and True are one key)
PyCollides(f, key) ==
  /\ IsNumeric(key)
  /\ \E p \in f : IsNumeric(p[1]) /\ p[1] # key /\ (p[1][1] # "num" \/ key[1] # "num")

RECURSIVE PyValue(_, _)
RECURSIVE PyListRest(_, _, _)
RECURSIVE PyDictRest(_, _, _)
RECURSIVE PySetRest(_, _, _)

\* an expression at i, a token start
PyValue(s, i) ==
  LET SignedNumber(k) ==
        IF NumberAt(s, k) THEN NumTail(s, Signed(s[i], PyNumber(s, k)))
        ELSE IF At(s, k, {Ord("(")}) THEN FailU
        ELSE Fail
      List(k) ==
        IF At(s, k, {RBRACK}) THEN Ok(Arr(<<>>), k + 1) ELSE PyListRest(s, k, <<>>)
      DictValue(first, val) ==
        IF ~val.ok THEN val
        ELSE IF ~Hashable(first.v) THEN Fail
        ELSE PyDictRest(s, PySkip(s, val.e), Put({}, first.v, val.v))
      AfterFirst(first, n) ==
        IF At(s, n, {COLON}) THEN DictValue(first, PyValue(s, PySkip(s, n + 1)))
        ELSE IF ~Hashable(first.v) THEN Fail
        ELSE PySetRest(s, n, {first.v})
      First(first) == IF ~first.ok THEN first ELSE AfterFirst(first, PySkip(s, first.e))
      Braces(k) == IF At(s, k, {RBRACE}) THEN Ok(EmptyDict, k + 1) ELSE First(PyValue(s, k))
      Name(e, id) ==
        IF id = Cs(<<"T", "r", "u", "e">>) THEN Ok(Bool(TRUE), e)
        ELSE IF id = Cs(<<"F", "a", "l", "s", "e">>) THEN Ok(Bool(FALSE), e)
        ELSE IF id = Cs(<<"N", "o", "n", "e">>) THEN Ok(None, e)
        ELSE Fail
      Identifier(e) == Name(e, Slice(s, i, e - 1))
  IN IF i > Len(s) THEN Fail
     ELSE IF IsQuote(s[i]) THEN PyStrings(s, i)
     ELSE IF NumberAt(s, i) THEN NumTail(s, PyNumber(s, i))
     ELSE IF s[i] = DOT THEN
       IF MatchAt(s, <<DOT, DOT, DOT>>, i) THEN FailU ELSE Fail
     ELSE IF s[i] \in {PLUS, MINUS} THEN SignedNumber(PySkip(s, i + 1))
     ELSE IF s[i] = Ord("(") THEN FailU
     ELSE IF s[i] = LBRACK THEN List(PySkip(s, i + 1))
     ELSE IF s[i] = LBRACE THEN Braces(PySkip(s, i + 1))
     ELSE IF IsIdStart(s[i]) THEN
       IF PrefixedStringAt(s, i) THEN FailU ELSE Identifier(IdEnd(s, i))
     ELSE Fail

\* after '[' or ',': the next element of a list display
PyListRest(s, i, a) ==
  LET Comma(val, m) ==
        IF At(s, m, {RBRACK}) THEN Ok(Arr(Append(a, val.v)), m + 1)
        ELSE PyListRest(s, m, Append(a, val.v))
      Element(val, n) ==
        IF At(s, n, {RBRACK}) THEN Ok(Arr(Append(a, val.v)), n + 1)
        ELSE IF At(s, n, {COMMA}) THEN Comma(val, PySkip(s, n + 1))
        ELSE Fail
      Value(val) == IF ~val.ok THEN val ELSE Element(val, PySkip(s, val.e))
  IN Value(PyValue(s, i))

\* after a value of a dict display: n is at '}' or ','
PyDictRest(s, n, f) ==
  LET Item(key, val) ==
        IF ~val.ok THEN val
        ELSE IF ~Hashable(key.v) THEN Fail
        ELSE IF PyCollides(f, key.v) THEN FailU
        ELSE PyDictRest(s, PySkip(s, val.e), Put(f, key.v, val.v))
      Colon(key, c) ==
        IF ~At(s, c, {COLON}) THEN Fail ELSE Item(key, PyValue(s, PySkip(s, c + 1)))
      Key(key) == IF ~key.ok THEN key ELSE Colon(key, PySkip(s, key.e))
      Comma(m) == IF At(s, m, {RBRACE}) THEN Ok(Obj(f), m + 1) ELSE Key(PyValue(s, m))
  IN IF At(s, n, {RBRACE}) THEN Ok(Obj(f), n + 1)
     ELSE IF ~At(s, n, {COMMA}) THEN Fail
     ELSE Comma(PySkip(s, n + 1))

\* after an element of a set display: n is at '}' or ','
PySetRest(s, n, S) ==
  LET Element(val) ==
        IF ~val.ok THEN val
        ELSE IF ~Hashable(val.v) THEN Fail
        ELSE IF IsNumeric(val.v) /\ \E x \in S : IsNumeric(x) /\ x[1] # val.v[1] THEN FailU
        ELSE PySetRest(s, PySkip(s, val.e), S \cup {val.v})
      Comma(m) == IF At(s, m, {RBRACE}) THEN Ok(Set(S), m + 1) ELSE Element(PyValue(s, m))
  IN IF At(s, n, {RBRACE}) THEN Ok(Set(S), n + 1)
     ELSE IF ~At(s, n, {COMMA}) THEN Fail
     ELSE Comma(PySkip(s, n + 1))

\* _try_python_literal_dict: ast.literal_eval(text) when it is a dict, None
\* when it is another value or raises.  literal_eval strips leading blanks and
\* tabs; an expression that is a dict display starts with '{', and after its
\* '}' only blanks, newlines and comments may follow (anything else makes it
\* another expression or a syntax error).  A text that holds '{' behind another
\* token than '[' or a backtick is outside the modelled grammar.
_try_python_literal_dict(text) ==
  LET Display(t, r) ==
        IF ~r.ok THEN (IF r.v = Unmodelled THEN Unmodelled ELSE None)
        ELSE IF PySkip(t, r.e) > Len(t) /\ IsDict(r.v) THEN r.v
        ELSE None
      Evaluated(t) ==
        IF t = <<>> THEN None
        ELSE IF \E i \in 1..Len(t) : t[i] = 0 THEN None
        ELSE IF t[1] = LBRACE THEN Display(t, PyValue(t, 1))
        ELSE IF ~Contains(t, <<LBRACE>>) \/ t[1] \in {LBRACK, BTICK} THEN None
        ELSE Unmodelled
  IN Evaluated(From(text, CHOOSE i \in 1..(Len(text) + 1) :
                            /\ \A k \in 1..(i - 1) : text[k] \in {SP, TAB}
                            /\ (i > Len(text) \/ text[i] \notin {SP, TAB})))

(***************************************************************************)
(* params_parser.robust_parse_third_arg                                    *)
(***************************************************************************)
EXECUTE_PYTHON_SCRIPT == "execute_python_script"
JsonLangs ==
  {Cs(<<"j", "s", "o", "n">>),
   Cs(<<"j", "a", "v", "a", "s", "c", "r", "i", "p", "t">>),
   Cs(<<"j", "s", "o", "n", "c">>)}

\* (a value that is no mapping is dropped)
WrapOrEmpty(j) == IF IsDict(j) THEN j ELSE EmptyDict
\* j if isinstance(j, dict) else {"value": j}
Wrap(j) == IF IsDict(j) THEN j ELSE Dict1(K_VALUE, j)

\* _try_base64_json: the decoder's errors are caught by
\* except (binascii.Error, ValueError); anything else would propagate
\* (a handler that names binascii.Error alone lets the ValueError of a
\* non-ASCII text through)
CaughtBinasciiOnly == {"binascii.Error"}
CaughtByBase64 == {"binascii.Error", "ValueError"}
_try_base64_json(s) ==
  LET Decoded(rawb) ==
        IF IsRaise(rawb)
        THEN (IF rawb[2] \in CaughtByBase64 THEN None ELSE rawb)
        ELSE _try_json(Utf8Decode(rawb[2], 1, "ignore"))
  IN Decoded(b64decode(s))

\* re.search(r'"script"\s*:\s*"(.*)"\s*$', s2, flags=re.S): group 1 of the
\* leftmost match.  The greedy group ends at the quote that is the last
\* character of s2 that is not whitespace.
Q_SCRIPT == <<DQ>> \o K_SCRIPT \o <<DQ>>
SearchBrokenScript(s2, i) ==
  LET Colon(k) == LStripIdx(s2, k + Len(Q_SCRIPT))
      Opening(k) == LStripIdx(s2, Colon(k) + 1)
      Closing == RStripIdx(s2, Len(s2))
      Hit(k) ==
        /\ MatchAt(s2, Q_SCRIPT, k)
        /\ At(s2, Colon(k), {COLON})
        /\ At(s2, Opening(k), {DQ})
        /\ Closing > Opening(k)
        /\ s2[Closing] = DQ
      Group(b) == [hit |-> TRUE, g |-> Slice(s2, b + 1, Closing - 1)]
      Found(k) == IF k > Len(s2) THEN [hit |-> FALSE, g |-> <<>>] ELSE Group(Opening(k))
  IN Found(Least(Hit, i, Len(s2)))

\* The nine strategies on the normalized text s: each is the mapping it
\* returns, or None when the resolver goes on to the next one.
Strategy1(s, tool_name) ==
  LET Parsed(val) == IF IsNone(val) THEN None ELSE Wrap(val)
  IN Parsed(_try_json(s))

Strategy2(s, tool_name) ==
  LET Script(content) ==
        IF tool_name = EXECUTE_PYTHON_SCRIPT THEN Dict1(K_SCRIPT, Str(content))
        ELSE Dict1(K_VALUE, Str(content))
      Json(content, j) == IF ~IsNone(j) THEN Wrap(j) ELSE Script(content)
      Fenced(fence) ==
        IF ~(fence.hit /\ fence.content # <<>>) THEN None
        ELSE IF fence.lang \in JsonLangs THEN Json(fence.content, _try_json(fence.content))
        ELSE Script(fence.content)
  IN Fenced(_extract_code_fence(s))

Strategy3(s, tool_name) ==
  LET Parsed(j) == IF ~IsNone(j) THEN Wrap(j) ELSE None
      Segment(seg) ==
        IF seg.found /\ seg.seg # <<>> THEN Parsed(_try_json(seg.seg)) ELSE None
  IN Segment(_extract_first_balanced_json(s))

Strategy4(s, tool_name) == _try_python_literal_dict(s)

Strategy5(s, tool_name) ==
  LET Base64(b64) ==
        IF IsRaise(b64) THEN b64
        ELSE IF ~IsNone(b64) THEN Wrap(b64)
        ELSE None
      UrlJson(j) == IF ~IsNone(j) THEN Wrap(j) ELSE Base64(_try_base64_json(s))
      Url(maybe_url) ==
        IF maybe_url # s THEN UrlJson(_try_json(maybe_url))
        ELSE Base64(_try_base64_json(s))
  IN Url(unquote_plus(s))

Strategy6(s, tool_name) == _kvs_fallback(s)

Strategy7(s, tool_name) == _maybe_path_arg(s)

Strategy8(s, tool_name) ==
  LET Script(code) == IF code = Unmodelled THEN Unmodelled ELSE Dict1(K_SCRIPT, code)
      Broken(s2, m) == Script(_decode_unicode_escapes(IF m.hit THEN m.g ELSE s2))
      Unquoted(s2) == Broken(s2, SearchBrokenScript(s2, 1))
  IN IF tool_name # EXECUTE_PYTHON_SCRIPT THEN None
     ELSE Unquoted(_strip_outer_quotes(s))

\* (the fallback keyed by the name api_doc_query expects)
Strategy9QueryKey(s, tool_name) ==
  IF tool_name = "api_doc_query" THEN Dict1(Cs(<<"q", "u", "e", "r", "y">>), Str(s))
  ELSE Dict1(K_VALUE, Str(s))
Strategy9(s, tool_name) == Dict1(K_VALUE, Str(s))

\* the body of robust_parse_third_arg after normalization: sequential
\* attempts, each returning at its first success
OrElse(r, next) == IF IsNone(r) THEN next ELSE r
Resolve(s, tool_name) ==
  OrElse(Strategy1(s, tool_name),
  OrElse(Strategy2(s, tool_name),
  OrElse(Strategy3(s, tool_name),
  OrElse(Strategy4(s, tool_name),
  OrElse(Strategy5(s, tool_name),
  OrElse(Strategy6(s, tool_name),
  OrElse(Strategy7(s, tool_name),
  OrElse(Strategy8(s, tool_name),
         Strategy9(s, tool_name)))))))))

\* if not raw or not raw.strip(): return {}
IsBlank(x) == Strip(x) = <<>>

robust_parse_third_arg(x, tool_name) ==
  IF IsBlank(x) THEN EmptyDict ELSE Resolve(_normalize(x), tool_name)

(***************************************************************************)
(* argparse_parser: shlex.split(s) as _parse_cli_style calls it (posix     *)
(* rules, whitespace_split, no comment characters).  The lexer state is    *)
(* "sp" between tokens, "a" inside a word, "dq" or "sq" inside quotes and  *)
(* "esc" after a backslash; escapedstate is the state an escape returns    *)
(* to.  A call yields [ok, toks]; ok is FALSE where shlex raises ValueError*)
(* (no closing quotation, no escaped character).                           *)
(***************************************************************************)
SHLEX_WHITESPACE == {SP, TAB, CR, NL}

ShlexScan(s, i, state0, escapedstate0, token0, acc0) ==
  LET To(state, escapedstate, token, acc) ==
        [state |-> state, escapedstate |-> escapedstate, token |-> token, acc |-> acc]
      Step(st, k) ==
        IF st.state = "sp" THEN
          IF s[k] \in SHLEX_WHITESPACE THEN To("sp", "sp", <<>>, st.acc)
          ELSE IF s[k] = BSL THEN To("esc", "a", <<>>, st.acc)
          ELSE IF s[k] = DQ THEN To("dq", "sp", <<>>, st.acc)
          ELSE IF s[k] = SQ THEN To("sq", "sp", <<>>, st.acc)
          ELSE To("a", "sp", <<s[k]>>, st.acc)
        ELSE IF st.state = "dq" THEN
          IF s[k] = DQ THEN To("a", st.escapedstate, st.token, st.acc)
          ELSE IF s[k] = BSL THEN To("esc", "dq", st.token, st.acc)
          ELSE To("dq", st.escapedstate, Append(st.token, s[k]), st.acc)
        ELSE IF st.state = "sq" THEN
          IF s[k] = SQ THEN To("a", st.escapedstate, st.token, st.acc)
          ELSE To("sq", st.escapedstate, Append(st.token, s[k]), st.acc)
        ELSE IF st.state = "esc" THEN
          IF st.escapedstate = "dq" /\ s[k] # BSL /\ s[k] # DQ
          THEN To(st.escapedstate, st.escapedstate, st.token \o <<BSL, s[k]>>, st.acc)
          ELSE To(st.escapedstate, st.escapedstate, Append(st.token, s[k]), st.acc)
        ELSE \* state = "a"
          IF s[k] \in SHLEX_WHITESPACE THEN To("sp", "sp", <<>>, Append(st.acc, st.token))
          ELSE IF s[k] = DQ THEN To("dq", st.escapedstate, st.token, st.acc)
          ELSE IF s[k] = SQ THEN To("sq", st.escapedstate, st.token, st.acc)
          ELSE IF s[k] = BSL THEN To("esc", "a", st.token, st.acc)
          ELSE To("a", st.escapedstate, Append(st.token, s[k]), st.acc)
      AtEnd(st) ==
        IF st.state = "sp" THEN [ok |-> TRUE, toks |-> st.acc]
        ELSE IF st.state = "a" THEN [ok |-> TRUE, toks |-> Append(st.acc, st.token)]
        ELSE [ok |-> FALSE, toks |-> <<>>]
  IN AtEnd(Fold(Step, To(state0, escapedstate0, token0, acc0), i, Len(s)))

shlex_split(s) == ShlexScan(s, 1, "sp", "sp", <<>>, <<>>)

(***************************************************************************)
(* MCPArgumentParser.supported_tools: the expected parameter names of each *)
(* tool, in order.                                                         *)
(***************************************************************************)
API_DOC_QUERY == "api_doc_query"
LIST_PYTHON_SCRIPTS == "list_python_scripts"
GET_CAMERA_0_VIEW == "get_camera_0_view"
MOVE_CAMERA == "move_camera"
K_QUERY == Cs(<<"q", "u", "e", "r", "y">>)
K_LOCATION == Cs(<<"l", "o", "c", "a", "t", "i", "o", "n">>)
K_ROTATION == Cs(<<"r", "o", "t", "a", "t", "i", "o", "n">>)
K_TYPE == Cs(<<"t", "y", "p", "e">>)
K_PARAMS == Cs(<<"p", "a", "r", "a", "m", "s">>)

supported_tools ==
  [t \in {API_DOC_QUERY, EXECUTE_PYTHON_SCRIPT, LIST_PYTHON_SCRIPTS,
          GET_CAMERA_0_VIEW, MOVE_CAMERA} |->
     CASE t = API_DOC_QUERY -> <<K_QUERY>>
       [] t = EXECUTE_PYTHON_SCRIPT -> <<K_SCRIPT, K_PATH>>
       [] t = MOVE_CAMERA -> <<K_LOCATION, K_ROTATION>>
       [] OTHER -> <<>>]

\* tool_name in self.supported_tools, and its list is not empty
HasExpected(tool_name) ==
  tool_name \in DOMAIN supported_tools /\ supported_tools[tool_name] # <<>>

(***************************************************************************)
(* MCPArgumentParser._process_value.  float(value) is modelled by the      *)
(* texts it accepts (over ASCII digits); the float it gives is the value   *)
(* <<"float", text>> of the stripped text, so two spellings of one number  *)
(* are told apart.                                                         *)
(***************************************************************************)
RECURSIVE DigitPartMore(_, _)
\* j is past a digit of a digit part: digits, single underscores between them
DigitPartMore(s, j) ==
  IF j <= Len(s) /\ IsDigit(s[j]) THEN DigitPartMore(s, j + 1)
  ELSE IF j + 1 <= Len(s) /\ s[j] = USCORE /\ IsDigit(s[j + 1])
       THEN DigitPartMore(s, j + 2)
  ELSE j
\* the position past the digit part that starts at i; i when there is none
DigitPartEnd(s, i) ==
  IF i <= Len(s) /\ IsDigit(s[i]) THEN DigitPartMore(s, i + 1) ELSE i

FloatWords ==
  {Cs(<<"i", "n", "f">>), Cs(<<"i", "n", "f", "i", "n", "i", "t", "y">>),
   Cs(<<"n", "a", "n">>)}

\* t (stripped, lower-cased) is a text float() accepts
IsFloatText(t) ==
  LET Sgn(i) == IF i <= Len(t) /\ t[i] \in {PLUS, MINUS} THEN i + 1 ELSE i
      Digits(i) == DigitPartEnd(t, i) > i
      Exponent(j) ==
        IF j = Len(t) + 1 THEN TRUE
        ELSE IF t[j] = Ord("e")
             THEN Digits(Sgn(j + 1)) /\ DigitPartEnd(t, Sgn(j + 1)) = Len(t) + 1
        ELSE FALSE
      Fraction(a) ==
        IF a <= Len(t) /\ t[a] = DOT THEN Exponent(DigitPartEnd(t, a + 1))
        ELSE Exponent(a)
      Mantissa(i) ==
        IF Digits(i) THEN Fraction(DigitPartEnd(t, i))
        ELSE /\ i <= Len(t) /\ t[i] = DOT
             /\ Digits(i + 1)
             /\ Exponent(DigitPartEnd(t, i + 1))
  IN From(t, Sgn(1)) \in FloatWords \/ Mantissa(Sgn(1))

\* float(value): the float, or <<"raise", "ValueError">>
float(value) ==
  IF IsFloatText(Lower(Strip(value))) THEN Float(Strip(value))
  ELSE Raise("ValueError")

IsDigitStr(s) == s # <<>> /\ \A k \in 1..Len(s) : IsDigit(s[k])
RECURSIVE IntValue(_, _, _)
IntValue(s, i, acc) ==
  IF i > Len(s) THEN acc ELSE IntValue(s, i + 1, 10 * acc + DigitVal(s[i]))
\* int(value) for the texts _process_value hands it
int(value) ==
  IF value[1] = MINUS THEN Num(0 - IntValue(value, 2, 0))
  ELSE Num(IntValue(value, 1, 0))

W_TRUE == Cs(<<"t", "r", "u", "e">>)
W_FALSE == Cs(<<"f", "a", "l", "s", "e">>)

_process_value(value0) ==
  LET Typed(value) ==
        IF Lower(value) \in {W_TRUE, W_FALSE} THEN Bool(Lower(value) = W_TRUE)
        ELSE IF IsDigitStr(value) \/ (StartsWith(value, <<MINUS>>) /\ IsDigitStr(From(value, 2)))
             THEN int(value)
        ELSE IF ~IsRaise(float(value)) THEN float(value)
        ELSE Str(value)
  IN Typed(_strip_outer_quotes(value0))

(***************************************************************************)
(* MCPArgumentParser._process_escape_sequences: six replacements, each     *)
(* over the whole text, in the order of the replacements dict.             *)
(***************************************************************************)
\* (the escaped backslash collapsed first, not last)
ReplacementsBackslashFirst ==
  << <<(<<BSL, BSL>>), <<BSL>>>>,
     <<(<<BSL, Ord("n")>>), <<NL>>>>,
     <<(<<BSL, Ord("t")>>), <<TAB>>>>,
     <<(<<BSL, Ord("r")>>), <<CR>>>>,
     <<(<<BSL, DQ>>), <<DQ>>>>,
     <<(<<BSL, SQ>>), <<SQ>>>> >>
Replacements ==
  << <<(<<BSL, Ord("n")>>), <<NL>>>>,
     <<(<<BSL, Ord("t")>>), <<TAB>>>>,
     <<(<<BSL, Ord("r")>>), <<CR>>>>,
     <<(<<BSL, DQ>>), <<DQ>>>>,
     <<(<<BSL, SQ>>), <<SQ>>>>,
     <<(<<BSL, BSL>>), <<BSL>>>> >>

RECURSIVE ReplaceAll(_, _, _)
ReplaceAll(text, pairs, k) ==
  IF k > Len(pairs) THEN text
  ELSE ReplaceAll(Replace(text, pairs[k][1], pairs[k][2]), pairs, k + 1)

\* on a str
ProcessEscapes(text) == ReplaceAll(text, Replacements, 1)

\* a float written as lexeme is 0.0: it has digits, and those of its
\* mantissa are all zeros
IsZeroFloat(lexeme) ==
  /\ \E k \in 1..Len(lexeme) : IsDigit(lexeme[k])
  /\ \A k \in 1..Len(lexeme) :
       (\A j \in 1..k : ToLower(lexeme[j]) # Ord("e")) => lexeme[k] \notin 49..57
\* bool(v) is False
Falsy(v) ==
  \/ v = None
  \/ v = Bool(FALSE)
  \/ v = Num(0)
  \/ v[1] = "float" /\ IsZeroFloat(v[2])
  \/ v[1] = "str" /\ v[2] = <<>>
  \/ v[1] = "arr" /\ v[2] = <<>>
  \/ v[1] = "obj" /\ v[2] = {}

\* on any value: a falsy one is returned as it is, a str is restored, and
\* any other value has no replace method
_process_escape_sequences(v) ==
  IF Falsy(v) THEN v
  ELSE IF v[1] = "str" THEN Str(ProcessEscapes(v[2]))
  ELSE Raise("AttributeError")

(***************************************************************************)
(* MCPArgumentParser._try_parse_json: None when the text is not JSON, even *)
(* after the doubled escapes are collapsed.                                *)
(***************************************************************************)
Preprocessed(args_str) ==
  Replace(Replace(Replace(Replace(args_str,
    <<BSL, BSL, Ord("n")>>, <<BSL, Ord("n")>>),
    <<BSL, BSL, DQ>>, <<BSL, DQ>>),
    <<BSL, BSL, Ord("t")>>, <<BSL, Ord("t")>>),
    <<BSL, BSL, Ord("r")>>, <<BSL, Ord("r")>>)

\* d with d["script"] restored, when d has the key; the exception when the
\* restoration raises
RestoreScript(d) ==
  LET Stored(v) == IF IsRaise(v) THEN v ELSE Obj(Put(d[2], Str(K_SCRIPT), v))
  IN IF HasKey(d, K_SCRIPT)
     THEN Stored(_process_escape_sequences(Get(d, K_SCRIPT)))
     ELSE d

_try_parse_json(args_str) ==
  LET Shaped(loaded) ==
        IF IsRaise(loaded) THEN None
        ELSE IF ~IsDict(loaded) THEN Dict1(K_VALUE, loaded)
        ELSE IF /\ HasKey(loaded, K_TYPE)
                /\ HasKey(loaded, K_PARAMS)
                /\ IsDict(Get(loaded, K_PARAMS))
             THEN RestoreScript(Get(loaded, K_PARAMS))
        ELSE RestoreScript(loaded)
      Retried(first) ==
        IF IsRaise(first) THEN Shaped(json_loads(Preprocessed(args_str)))
        ELSE Shaped(first)
  IN Retried(json_loads(args_str))

(***************************************************************************)
(* MCPArgumentParser._parse_execute_python_script.  The three re.search    *)
(* patterns are matched by hand; a search yields [hit, g] with g the text  *)
(* of group 1.  The file named by the cat form is opened in an             *)
(* environment the parser does not control: fs says what open and read     *)
(* do there.                                                               *)
(***************************************************************************)
OPT_SCRIPT == Cs(<<"-", "-", "s", "c", "r", "i", "p", "t", "=">>)
OPT_PATH == Cs(<<"-", "-", "p", "a", "t", "h", "=">>)
DOLLAR_CAT == Cs(<<"$", "(", "c", "a", "t">>)
RPAREN == Ord(")")
NoMatch == [hit |-> FALSE, g |-> <<>>]
Match(g) == [hit |-> TRUE, g |-> g]
\* the position past an optional quote at i
PastQuote(s, i) == IF i <= Len(s) /\ s[i] \in {DQ, SQ} THEN i + 1 ELSE i

\* --script=["']?\$\(cat\s+([^)]+)\)["']?
SearchCat(s, i) ==
  LET \* d: past the optional quote, w: past "$(cat", e: past the whitespace
      \* run, c: the closing ")"
      D(k) == PastQuote(s, k + Len(OPT_SCRIPT))
      W(k) == D(k) + Len(DOLLAR_CAT)
      E(k) == LStripIdx(s, W(k))
      C(k) == FindFrom(s, <<RPAREN>>, E(k))
      Hit(k) ==
        /\ MatchAt(s, OPT_SCRIPT, k)
        /\ MatchAt(s, DOLLAR_CAT, D(k))
        /\ E(k) # W(k)
        /\ C(k) # 0
        /\ (C(k) > E(k) \/ E(k) - W(k) >= 2)
      Group(e, c) ==
        IF c > e THEN Match(Slice(s, e, c - 1)) ELSE Match(Slice(s, e - 1, c - 1))
      Found(k) == IF k > Len(s) THEN NoMatch ELSE Group(E(k), C(k))
  IN Found(Least(Hit, i, Len(s)))

\* strip('"\'')
StripQuotes(s) ==
  LET NotQuote(k) == s[k] \notin {DQ, SQ}
  IN Slice(s, Least(NotQuote, 1, Len(s)), Greatest(NotQuote, 1, Len(s)))

\* the position past the run of [^"\s] that starts at i
PathRunEnd(s, i) ==
  LET Ends(k) == s[k] = DQ \/ IsSpace(s[k]) IN Least(Ends, i, Len(s))

\* --path=["']?([^"\s]+)["']?
SearchPathOpt(s, i) ==
  LET A(k) == k + Len(OPT_PATH)
      Q(k) == PastQuote(s, A(k))
      Hit(k) ==
        /\ MatchAt(s, OPT_PATH, k)
        /\ (PathRunEnd(s, Q(k)) > Q(k) \/ PathRunEnd(s, A(k)) > A(k))
      Run(a, q) ==
        IF PathRunEnd(s, q) > q THEN Match(Slice(s, q, PathRunEnd(s, q) - 1))
        ELSE Match(Slice(s, a, PathRunEnd(s, a) - 1))
      Found(k) == IF k > Len(s) THEN NoMatch ELSE Run(A(k), Q(k))
  IN Found(Least(Hit, i, Len(s)))

\* $ without re.M: at the end, or before a newline that ends the text
AtDollar(s, e) == e = Len(s) + 1 \/ (e = Len(s) /\ s[e] = NL)

\* --script=["']?(.*?)["']?$ with re.DOTALL: the lazy group stops at the
\* first position from which an optional quote reaches the end
LazyEnd(s, e) ==
  LET Ends(k) == AtDollar(s, k) \/ (s[k] \in {DQ, SQ} /\ AtDollar(s, k + 1))
  IN Least(Ends, e, Len(s) + 1)

SearchScriptOpt(s) ==
  LET Group(b) == Match(Slice(s, b, LazyEnd(s, b) - 1))
      Found(i) == IF i = 0 THEN NoMatch ELSE Group(PastQuote(s, i + Len(OPT_SCRIPT)))
  IN Found(Find(s, OPT_SCRIPT))

\* script_content without its outer quotes
Unquoted(c) ==
  IF (StartsWith(c, <<DQ>>) /\ EndsWith(c, <<DQ>>))
     \/ (StartsWith(c, <<SQ>>) /\ EndsWith(c, <<SQ>>))
  THEN Slice(c, 2, Len(c) - 1)
  ELSE c

\* what open(filename, 'r', encoding='utf-8') and f.read() can do
FILE_TEXT == Cs(<<"p", "a", "s", "s">>) \o <<NL>>
FileStates(filename) ==
  IF filename = <<>> THEN {"FileNotFoundError"}
  ELSE {"read", "FileNotFoundError", "IOError", "UnicodeDecodeError"}
CaughtByOpen == {"FileNotFoundError", "IOError"}
NOT_FOUND ==
  Cs(<<"#", " ", "F", "i", "l", "e", " ", "n", "o", "t", " ",
       "f", "o", "u", "n", "d", ":", " ">>)

ReadScriptFile(filename, fs) ==
  IF fs = "read" THEN Dict1(K_SCRIPT, Str(FILE_TEXT))
  ELSE IF fs \in CaughtByOpen THEN Dict1(K_SCRIPT, Str(NOT_FOUND \o filename))
  ELSE Raise(fs)

\* the file the cat form names
CatFile(args_str) == StripQuotes(Strip(SearchCat(args_str, 1).g))

_parse_execute_python_script(args_str, fs) ==
  LET Script(m) ==
        IF m.hit THEN Dict1(K_SCRIPT, _process_escape_sequences(Str(Unquoted(m.g))))
        ELSE Dict1(K_SCRIPT, _process_escape_sequences(Str(args_str)))
      Path(m) ==
        IF m.hit THEN Dict1(K_PATH, Str(m.g)) ELSE Script(SearchScriptOpt(args_str))
      Cat(m) ==
        IF m.hit THEN ReadScriptFile(CatFile(args_str), fs)
        ELSE Path(SearchPathOpt(args_str, 1))
  IN Cat(SearchCat(args_str, 1))

(***************************************************************************)
(* MCPArgumentParser._parse_cli_style, generic path.                       *)
(***************************************************************************)
DASHES == <<MINUS, MINUS>>
IsFlag(arg) == StartsWith(arg, DASHES)
\* arg[2:].split('=', 1), for an arg that holds '='
FlagKey(arg) == Slice(arg, 3, Find(arg, <<EQ>>) - 1)
FlagValue(arg) == From(arg, Find(arg, <<EQ>>) + 1)

\* (the except branch always using the key value)
SplitFailedValueKey(tool_name, args_str) == Dict1(K_VALUE, Str(Strip(args_str)))
\* the except ValueError branch
SplitFailed(tool_name, args_str) ==
  IF HasExpected(tool_name)
  THEN Dict1(supported_tools[tool_name][1], Str(Strip(args_str)))
  ELSE Dict1(K_VALUE, Str(Strip(args_str)))

\* (a bare token assigned to the last expected parameter, not the first)
CliStepLastParam(tool_name, args, i, f) ==
  LET Last(ps) == ps[Len(ps)]
  IN IF IsFlag(args[i]) THEN
       IF Contains(args[i], <<EQ>>)
       THEN [at |-> i + 1,
             items |-> Put(f, Str(FlagKey(args[i])), _process_value(FlagValue(args[i])))]
       ELSE IF i + 1 <= Len(args)
       THEN [at |-> i + 2,
             items |-> Put(f, Str(From(args[i], 3)), _process_value(args[i + 1]))]
       ELSE [at |-> i + 1, items |-> Put(f, Str(From(args[i], 3)), Bool(TRUE))]
     ELSE IF HasExpected(tool_name)
       THEN [at |-> i + 1,
             items |-> Put(f, Str(Last(supported_tools[tool_name])), _process_value(args[i]))]
     ELSE [at |-> i + 1, items |-> f]
\* one pass of the while loop over args at (1-based) position i, with the
\* items f of result: the position and the items after it
CliStep(tool_name, args, i, f) ==
  IF IsFlag(args[i]) THEN
    IF Contains(args[i], <<EQ>>)
    THEN [at |-> i + 1,
          items |-> Put(f, Str(FlagKey(args[i])), _process_value(FlagValue(args[i])))]
    ELSE IF i + 1 <= Len(args)
    THEN [at |-> i + 2,
          items |-> Put(f, Str(From(args[i], 3)), _process_value(args[i + 1]))]
    ELSE [at |-> i + 1, items |-> Put(f, Str(From(args[i], 3)), Bool(TRUE))]
  ELSE IF HasExpected(tool_name)
    THEN [at |-> i + 1,
          items |-> Put(f, Str(supported_tools[tool_name][1]), _process_value(args[i]))]
  ELSE [at |-> i + 1, items |-> f]

RECURSIVE CliLoop(_, _, _, _)
CliLoop(tool_name, args, i, f) ==
  LET Again(n) == CliLoop(tool_name, args, n.at, n.items)
  IN IF i > Len(args) THEN Obj(f) ELSE Again(CliStep(tool_name, args, i, f))

_parse_cli_style(tool_name, args_str, fs) ==
  LET Split(r) ==
        IF r.ok THEN CliLoop(tool_name, r.toks, 1, {})
        ELSE SplitFailed(tool_name, args_str)
  IN IF tool_name = EXECUTE_PYTHON_SCRIPT
     THEN _parse_execute_python_script(args_str, fs)
     ELSE Split(shlex_split(args_str))

\* MCPArgumentParser.parse_args, and the module's robust_parse_third_arg
\* that forwards to it
parse_args(tool_name, args_str, fs) ==
  LET Tried(json_result) ==
        IF ~IsNone(json_result) THEN json_result
        ELSE _parse_cli_style(tool_name, args_str, fs)
  IN IF IsBlank(args_str) THEN EmptyDict
     ELSE Tried(_try_parse_json(Strip(args_str)))

(***************************************************************************)
(* Argument texts.  Free text is a concatenation of at most MaxFrags       *)
(* fragments; the other families are assembled from named pieces so that   *)
(* a property can speak about the pieces.                                  *)
(***************************************************************************)
MaxFrags == 2
EACUTE == Len(Ascii) + Ord("i")   \* U+00E9, a letter outside ASCII

Frags ==
  {Cs(<<" ">>),
   Cs(<<"\r", "\n">>),
   <<ZWSP>>,
   <<LDQUO>>,
   <<RSQUO>>,
   Cs(<<"{">>),
   Cs(<<"}">>),
   Cs(<<"[">>),
   Cs(<<"]">>),
   Cs(<<"x60", "x60", "x60">>),
   Cs(<<"a">>),
   <<EACUTE>>,
   Cs(<<"1">>),
   Cs(<<"=">>),
   Cs(<<"x22">>),
   Cs(<<"{", "x22", "a", "x22", ":", " ", "1", "}">>),
   Cs(<<"{", "x27", "a", "x27", ":", " ", "1", "}">>),
   Cs(<<"e", "3", "0", "=">>),
   Cs(<<"%", "7", "B", "%", "7", "D">>),
   Cs(<<"p", "a", "t", "h", "=", "a", ".", "p", "y">>),
   Cs(<<"s", "c", "r", "i", "p", "t", "=", "x">>),
   Cs(<<"a", ".", "p", "y">>),
   Cs(<<"x5C", "n">>),
   Cs(<<"n", "u", "l", "l">>)}

RECURSIVE Texts(_)
Texts(n) ==
  IF n = 0 THEN {<<>>}
  ELSE LET W == Texts(n - 1) IN W \cup {w \o f : w \in W, f \in Frags}

\* serialized JSON values
JsonTexts ==
  {Cs(<<"{", "}">>),
   Cs(<<"{", "x22", "a", "x22", ":", " ", "x22">>) \o <<LDQUO>> \o Cs(<<"q">>) \o <<RDQUO>> \o Cs(<<"x22", "}">>),
   Cs(<<"{", "x22", "a", "x22", ":", " ", "x22", "x">>) \o <<ZWSP>> \o Cs(<<"y", "x22", "}">>),
   Cs(<<"{", "x22", "a", "x22", ":", " ", "x22", "x5C", "r", "x5C", "u", "2", "0", "1", "c", "x22", "}">>),
   Cs(<<"{", "\r", "\n", "x22", "a", "x22", ":", " ", "[", "1", ",", " ", "n", "u", "l", "l", "]", ",", "\r", "\n", "x22", "b", "x22", ":", " ", "t", "r", "u", "e", "}">>),
   Cs(<<"[", "1", ",", " ", "x22", "a", "x22", "]">>),
   Cs(<<"x22", "a", "x22">>),
   Cs(<<"f", "a", "l", "s", "e">>),
   Cs(<<"0">>),
   Cs(<<"-", "1", "2">>)}

\* prose, an opening fence line, a body, the closing fence, prose
FenceBefore ==
  {<<>>,
   Cs(<<"H", "e", "r", "e", ":", " ">>),
   Cs(<<"l", "o", "g", "\n">>),
   Cs(<<"s", "e", "e", " ", "[", "1", "]", ":", "\n">>),
   Cs(<<"u", "s", "e", " ", "{", "x", "}", "\n">>)}
FenceOpen ==
  {Cs(<<"x60", "x60", "x60", "j", "s", "o", "n", "\n">>),
   Cs(<<"x60", "x60", "x60", "J", "S", "O", "N", " ", "\n">>),
   Cs(<<"x60", "x60", "x60", "\n">>),
   Cs(<<"x60", "x60", "x60", "p", "y", "t", "h", "o", "n", "\n">>)}
FenceBody ==
  {Cs(<<"{", "x22", "a", "x22", ":", " ", "1", "}">>),
   Cs(<<"{", "}">>),
   Cs(<<"{", "x22", "a", "x22", ":", " ", "x22", "x">>) \o <<ZWSP>> \o Cs(<<"y", "x22", "}">>),
   Cs(<<"{", "x22", "a", "x22", ":", " ", "x22">>) \o <<LDQUO>> \o Cs(<<"x22", "}">>)}
FENCE_CLOSE == Cs(<<"\n", "x60", "x60", "x60">>)
FenceAfter ==
  {<<>>,
   Cs(<<"\n", "b", "y", "e">>),
   Cs(<<" ", "{">>),
   Cs(<<"\n", "[", "2", "]">>)}

\* prose, a JSON object, prose
ProseBefore ==
  {<<>>,
   Cs(<<"n", "o", "i", "s", "e", " ", "l", "i", "n", "e", "\n">>),
   Cs(<<"[", "I", "N", "F", "O", "]", " ", "u", "s", "e", "r", "x27", "s", " ">>),
   Cs(<<"i", "t", "x27", "s", " ">>),
   Cs(<<"x", " ", "[", "1", "]", " ">>)}
EmbeddedObjects ==
  {Cs(<<"{", "x22", "p", "a", "t", "h", "x22", ":", " ", "x22", "t", "e", "s", "t", ".", "p", "y", "x22", "}">>),
   Cs(<<"{", "x22", "a", "x22", ":", " ", "[", "1", ",", " ", "x22", "}", "x22", "]", "}">>)}
ProseAfter ==
  {<<>>,
   Cs(<<" ", "d", "o", "n", "e">>),
   Cs(<<" ", "i", "t", "x27", "s", " ", "[", "o", "k", "]">>),
   Cs(<<"\n", "}">>)}

\* script=<remainder>
SCRIPT_EQ == Cs(<<"s", "c", "r", "i", "p", "t", "=">>)
ScriptRemainders ==
  {Cs(<<"p", "r", "i", "n", "t", "(", "x22", "h", "i", "x22", ")">>),
   Cs(<<"x22", "x", " ", "=", " ", "1", "x22">>),
   Cs(<<"x27", "x", "x27">>),
   Cs(<<"p", "r", "i", "n", "t", "(", "[", "1", "]", ")">>),
   Cs(<<"d", " ", "=", " ", "{", "x22", "a", "x22", ":", " ", "1", "}">>),
   Cs(<<"x60", "x60", "x60", "p", "y", "t", "h", "o", "n", "\n", "x", " ", "=", " ", "1", "\n", "x60", "x60", "x60">>),
   Cs(<<"x">>),
   Cs(<<"a", "x60", "b">>),
   Cs(<<"f", "(", "x", ")", "x5C", "n">>)}

Inputs ==
  [shape : {"text"}, parts : {<<t>> : t \in Texts(MaxFrags)}]
  \cup [shape : {"json"}, parts : {<<t>> : t \in JsonTexts}]
  \cup [shape : {"fence"},
        parts : {<<b, o, c, FENCE_CLOSE, a>> :
                   b \in FenceBefore, o \in FenceOpen, c \in FenceBody, a \in FenceAfter}]
  \cup [shape : {"embedded"},
        parts : {<<b, o, a>> : b \in ProseBefore, o \in EmbeddedObjects, a \in ProseAfter}]
  \cup [shape : {"script"}, parts : {<<SCRIPT_EQ, r>> : r \in ScriptRemainders}]

RECURSIVE Flatten(_)
Flatten(ps) == IF ps = <<>> THEN <<>> ELSE Head(ps) \o Flatten(Tail(ps))

Tools == {EXECUTE_PYTHON_SCRIPT, "api_doc_query"}

(***************************************************************************)
(* Flag-style argument texts: at most MaxArgs pieces joined by single      *)
(* spaces.  The pieces hold flags with and without values, bare tokens of  *)
(* each type, quoting, an unbalanced quote, the script tool's shortcuts    *)
(* and JSON objects.                                                       *)
(***************************************************************************)
MaxArgs == 2
ArgPieces ==
  { <<>>,
    Cs(<<"-", "-", "v", "e", "r", "b", "o", "s", "e">>),
    Cs(<<"-", "-", "q", "u", "e", "r", "y">>),
    Cs(<<"-", "-", "q", "u", "e", "r", "y", "=", "x">>),
    Cs(<<"-", "-", "n", "=", "-", "5">>),
    Cs(<<"x">>),
    Cs(<<"1", "0">>),
    Cs(<<"1", ".", "5">>),
    Cs(<<"T", "r", "u", "e">>),
    Cs(<<"n", "a", "n">>),
    Cs(<<"x22", "a", " ", "b", "x22">>),
    Cs(<<"x27">>),
    OPT_SCRIPT \o Cs(<<"x22", "$", "(", "c", "a", "t", " ", "a", ".", "p", "y", ")", "x22">>),
    OPT_PATH \o Cs(<<"x27", "a", ".", "p", "y", "x27">>),
    OPT_SCRIPT \o Cs(<<"x22", "p", "x5C", "n", "x22">>),
    Cs(<<"{", "x22", "q", "u", "e", "r", "y", "x22", ":", " ", "x22", "x", "x22", "}">>),
    Cs(<<"{", "x22", "s", "c", "r", "i", "p", "t", "x22", ":", " ", "1", "}">>),
    Cs(<<"{", "x22", "s", "c", "r", "i", "p", "t", "x22", ":", " ",
         "x22", "p", "x5C", "x5C", "n", "x22", "}">>),
    Cs(<<"{", "x22", "t", "y", "p", "e", "x22", ":", " ", "1", ",", " ",
         "x22", "p", "a", "r", "a", "m", "s", "x22", ":", " ", "{", "}", "}">>) }

RECURSIVE PieceLists(_)
PieceLists(n) ==
  IF n = 0 THEN {<<>>}
  ELSE PieceLists(n - 1) \cup
       {Append(ps, p) : ps \in {q \in PieceLists(n - 1) : Len(q) = n - 1}, p \in ArgPieces}

RECURSIVE Join(_)
Join(ps) ==
  IF ps = <<>> THEN <<>>
  ELSE IF Len(ps) = 1 THEN ps[1]
  ELSE ps[1] \o <<SP>> \o Join(Tail(ps))

FlagTools ==
  {API_DOC_QUERY, EXECUTE_PYTHON_SCRIPT, LIST_PYTHON_SCRIPTS, MOVE_CAMERA, "unknown_tool"}

(***************************************************************************)
(* A call of params_parser.robust_parse_third_arg(raw, tool), one step per *)
(* strategy.                                                               *)
(***************************************************************************)
StrategyPc == <<"try1", "try2", "try3", "try4", "try5", "try6", "try7", "try8", "try9">>

Init ==
  /\ \E i \in Inputs : shape = i.shape /\ parts = i.parts /\ raw = Flatten(i.parts)
  /\ tool \in Tools
  /\ pc = "call"
  /\ s_norm = <<>>
  /\ out = None
  /\ args_list = <<>> /\ arg_i = 0 /\ result = {}

\* blank check, then s = _normalize(raw)
Enter ==
  /\ pc = "call"
  /\ IF IsBlank(raw)
     THEN out' = EmptyDict /\ pc' = "return" /\ s_norm' = s_norm
     ELSE s_norm' = _normalize(raw) /\ pc' = StrategyPc[1] /\ out' = out
  /\ UNCHANGED <<shape, parts, raw, tool, cli_vars>>

\* strategy k gave r: return it (an exception leaves the call as well), or
\* go on to strategy k + 1 with the text as it was
Attempt(k, r) ==
  /\ pc = StrategyPc[k]
  /\ IF IsNone(r)
     THEN pc' = StrategyPc[k + 1] /\ out' = out
     ELSE pc' = "return" /\ out' = r
  /\ UNCHANGED <<shape, parts, raw, tool, s_norm, cli_vars>>

Try1 == Attempt(1, Strategy1(s_norm, tool))
Try2 == Attempt(2, Strategy2(s_norm, tool))
Try3 == Attempt(3, Strategy3(s_norm, tool))
Try4 == Attempt(4, Strategy4(s_norm, tool))
Try5 == Attempt(5, Strategy5(s_norm, tool))
\* (the .py heuristic tried where key=value belongs)
Try6PathFirst == Attempt(6, Strategy7(s_norm, tool))
Try6 == Attempt(6, Strategy6(s_norm, tool))
Try7 == Attempt(7, Strategy7(s_norm, tool))
Try8 == Attempt(8, Strategy8(s_norm, tool))
Try9 == Attempt(9, Strategy9(s_norm, tool))

Next == Enter \/ Try1 \/ Try2 \/ Try3 \/ Try4 \/ Try5 \/ Try6 \/ Try7 \/ Try8 \/ Try9

Spec == Init /\ [][Next]_vars

(***************************************************************************)
(* _normalize applied to a text, and again to what it returned.            *)
(***************************************************************************)
Normalize ==
  /\ pc = "call"
  /\ s_norm' = _normalize(raw) /\ pc' = "again"
  /\ UNCHANGED <<shape, parts, raw, tool, out, cli_vars>>

NormalizeAgain ==
  /\ pc = "again"
  /\ out' = Str(_normalize(s_norm)) /\ pc' = "return"
  /\ UNCHANGED <<shape, parts, raw, tool, s_norm, cli_vars>>

NextNormalize == Normalize \/ NormalizeAgain

SpecNormalize == Init /\ [][NextNormalize]_vars

(***************************************************************************)
(* A call of MCPArgumentParser.parse_args(tool, raw): the JSON attempt,    *)
(* then _parse_cli_style, whose while loop takes one step per pass.        *)
(***************************************************************************)
InitFlags ==
  /\ shape = "flags"
  /\ parts \in PieceLists(MaxArgs)
  /\ raw = Join(parts)
  /\ tool \in FlagTools
  /\ pc = "call"
  /\ s_norm = <<>>
  /\ out = None
  /\ args_list = <<>> /\ arg_i = 0 /\ result = {}

\* parse_args up to the call of _parse_cli_style
ParseArgs ==
  LET Tried(json_result) ==
        IF ~IsNone(json_result) THEN out' = json_result /\ pc' = "return"
        ELSE out' = out /\ pc' = "cli"
  IN /\ pc = "call"
     /\ IF IsBlank(raw) THEN out' = EmptyDict /\ pc' = "return"
        ELSE Tried(_try_parse_json(Strip(raw)))
     /\ UNCHANGED <<shape, parts, raw, tool, s_norm, cli_vars>>

\* the script tool's shortcuts, in the file system state fs
ScriptShortcut ==
  /\ pc = "cli" /\ tool = EXECUTE_PYTHON_SCRIPT
  /\ \E fs \in FileStates(CatFile(raw)) :
       out' = _parse_execute_python_script(raw, fs)
  /\ pc' = "return"
  /\ UNCHANGED <<shape, parts, raw, tool, s_norm, cli_vars>>

\* args_list = shlex.split(args_str); i = 0, or the except branch
Tokenize ==
  LET Split(r) ==
        IF r.ok
        THEN args_list' = r.toks /\ arg_i' = 1 /\ pc' = "loop" /\ out' = out
        ELSE /\ out' = SplitFailed(tool, raw) /\ pc' = "return"
             /\ UNCHANGED <<args_list, arg_i>>
  IN /\ pc = "cli" /\ tool # EXECUTE_PYTHON_SCRIPT
     /\ Split(shlex_split(raw))
     /\ UNCHANGED <<shape, parts, raw, tool, s_norm, result>>

\* one pass of the while loop
LoopStep ==
  LET Stepped(n) == arg_i' = n.at /\ result' = n.items
  IN /\ pc = "loop" /\ arg_i <= Len(args_list)
     /\ Stepped(CliStep(tool, args_list, arg_i, result))
     /\ UNCHANGED <<shape, parts, raw, tool, pc, s_norm, out, args_list>>

\* the loop is over: return result
ReturnResult ==
  /\ pc = "loop" /\ arg_i > Len(args_list)
  /\ out' = Obj(result) /\ pc' = "return"
  /\ UNCHANGED <<shape, parts, raw, tool, s_norm, cli_vars>>

NextFlags == ParseArgs \/ ScriptShortcut \/ Tokenize \/ LoopStep \/ ReturnResult

SpecFlags == InitFlags /\ [][NextFlags]_vars

\* every value the model computes is one the model covers
Modelled == out # Unmodelled /\ (pc = "return" => out[1] \in {"obj", "raise"})

(***************************************************************************)
(* Properties of the resolver.                                             *)
(***************************************************************************)
Chars(x) == {x[i] : i \in 1..Len(x)}

\* C1 (totality): every call returns a mapping and never raises, whatever
\* the text and the tool; a text that is empty or only whitespace returns the
\* empty mapping.
C1_Totality ==
  pc = "return" => IsDict(out) /\ (IsBlank(raw) => out = EmptyDict)

\* a text with a letter outside ASCII went through every parser, the base64
\* decoder refused it with ValueError, and the call returned the last resort
C1_Witness ==
  /\ pc = "return" /\ EACUTE \in Chars(raw)
  /\ b64decode(s_norm) = Raise("ValueError")
  /\ out = Strategy9(s_norm, tool)

\* C2 (JSON round trip): a text that is a serialized JSON object resolves to
\* that object, for every tool.
C2_JsonRoundTrip ==
  pc = "return" /\ IsDict(json_loads(raw)) => out = json_loads(raw)

\* C3 (idempotence): normalizing a normalized text changes nothing.
C3_Idempotent == pc = "return" => out = Str(s_norm)

\* a fenced text with prose in front and a zero-width character inside: the
\* first normalization dropped the prose and the character
C3_Witness ==
  /\ pc = "return" /\ shape = "fence" /\ parts[1] # <<>>
  /\ ZWSP \in Chars(raw) /\ MatchAt(s_norm, FENCE3, 1)
  /\ Len(s_norm) < Len(raw)

\* the text, its URL decoding or its base64 decoding holds an opening brace
\* and, after blanks or comments, the closing brace: an empty object
EmptyBracesFrom(x, i) ==
  \E k \in i..Len(x) : x[k] = LBRACE /\ At(x, PySkip(x, k + 1), {RBRACE})
WritesEmptyObject(x) ==
  \/ EmptyBracesFrom(x, 1)
  \/ EmptyBracesFrom(unquote_plus(x), 1)
  \/ /\ ~IsRaise(b64decode(x))
     /\ EmptyBracesFrom(Utf8Decode(b64decode(x)[2], 1, "ignore"), 1)

\* C4 as stated: a text with a character that is not whitespace never
\* resolves to the empty mapping.
C4_NonBlankNonEmpty ==
  pc = "return" /\ ~IsBlank(raw) => out # EmptyDict

\* C4 (amended): a text with a character that is not whitespace resolves to
\* the empty mapping only when it writes an empty object (as it stands, URL
\* encoded or base64 encoded); otherwise the mapping has a key.
C4_EmptyOnlyForEmptyObject ==
  pc = "return" /\ ~IsBlank(raw) /\ out = EmptyDict => WritesEmptyObject(s_norm)

\* the base64 text of an empty object resolved to the empty mapping
C4_Witness ==
  /\ pc = "return" /\ raw = Cs(<<"e", "3", "0", "=">>) /\ out = EmptyDict

\* the language tag of the opening fence line
FenceTag(line) == Lower(Strip(From(line, Len(FENCE3) + 1)))
CleanProse(x) == Chars(x) \cap {LBRACE, LBRACK} = {} /\ ~Contains(x, FENCE3)

FirstSuccess(x, tool_name) ==
  LET results == <<Strategy1(x, tool_name), Strategy2(x, tool_name),
                   Strategy3(x, tool_name), Strategy4(x, tool_name),
                   Strategy5(x, tool_name), Strategy6(x, tool_name),
                   Strategy7(x, tool_name), Strategy8(x, tool_name),
                   Strategy9(x, tool_name)>>
  IN results[Min({k \in 1..9 : ~IsNone(results[k])})]

\* C6 (strict order): the call returns what the first succeeding strategy
\* gives on the normalized text, in the order direct JSON, fence, embedded
\* JSON, Python literal, URL/base64, key=value, .py path, script fallback,
\* {"value": text}; and no strategy changes the text the next ones see.
C6_StrictOrder ==
  /\ [](pc = "return" /\ ~IsBlank(raw) => out = FirstSuccess(_normalize(raw), tool))
  /\ [][pc # "call" => s_norm' = s_norm]_vars

\* key=value answered although the .py heuristic would have answered too,
\* with another mapping
C6_Witness ==
  /\ pc = "return" /\ out = Strategy6(s_norm, tool)
  /\ ~IsNone(Strategy7(s_norm, tool)) /\ Strategy7(s_norm, tool) # out

\* C7 (embedded JSON): a JSON object between prose that may hold brackets,
\* braces, quotes or apostrophes resolves to that object.
C7_EmbeddedRecovered ==
  pc = "return" /\ shape = "embedded" => out = json_loads(parts[2])

\* the script text a script=<remainder> argument stands for
ScriptOf(remainder) ==
  IF _extract_code_fence(remainder).hit
  THEN _extract_code_fence(remainder).content
  ELSE _strip_outer_quotes(remainder)

\* C8 (script= form): script=<remainder> for execute_python_script resolves
\* to {"script": r}, r the fence body or the remainder less its outer quotes,
\* whole even when it holds braces, brackets or backticks.
C8_ScriptKept ==
  pc = "return" /\ shape = "script" /\ tool = EXECUTE_PYTHON_SCRIPT
  => out = Dict1(K_SCRIPT, Str(ScriptOf(parts[2])))

\* C9 (direct parse): a normalized text that is a JSON value resolves to the
\* value itself when it is an object and to {"value": v} otherwise (number,
\* string, boolean, null, array).
C9_DirectParseWraps ==
  pc = "return" /\ ~IsBlank(raw) /\ ~IsRaise(json_loads(s_norm))
  => out = Wrap(json_loads(s_norm))

(***************************************************************************)
(* Properties of the flag parser.                                          *)
(***************************************************************************)
\* C10: in the generic path a token --name=value assigns the coerced value
\* to name; a token --name without '=' with no token after it maps name to
\* true; it takes the token after it as its value when that token is not a
\* flag, and leaves a token that starts with -- where it is
C10_FlagConsumption ==
  [][(pc = "loop" /\ arg_i <= Len(args_list) /\ IsFlag(args_list[arg_i])) =>
       IF Contains(args_list[arg_i], <<EQ>>)
       THEN /\ arg_i' = arg_i + 1
            /\ result' = Put(result, Str(FlagKey(args_list[arg_i])),
                             _process_value(FlagValue(args_list[arg_i])))
       ELSE IF arg_i = Len(args_list)
       THEN /\ arg_i' = arg_i + 1
            /\ result' = Put(result, Str(From(args_list[arg_i], 3)), Bool(TRUE))
       ELSE IF ~IsFlag(args_list[arg_i + 1])
       THEN /\ arg_i' = arg_i + 2
            /\ result' = Put(result, Str(From(args_list[arg_i], 3)),
                             _process_value(args_list[arg_i + 1]))
       ELSE arg_i' = arg_i + 1]_vars

\* the first expected parameter of a tool that has one
FirstExpected(tool_name) == Str(supported_tools[tool_name][1])

\* C11: in the generic path a pass of the loop over a token without a
\* leading -- moves on by one token; for a tool with expected parameters it
\* maps the first of them to the coerced token and leaves every other key as
\* it was; for an unknown tool or a tool without expected parameters it
\* leaves the result as it was.
C11_BareTokens ==
  [][(pc = "loop" /\ arg_i <= Len(args_list) /\ ~IsFlag(args_list[arg_i])) =>
       /\ arg_i' = arg_i + 1
       /\ IF tool \in DOMAIN supported_tools /\ supported_tools[tool] # <<>>
          THEN /\ Keys(Obj(result')) = Keys(Obj(result)) \cup {FirstExpected(tool)}
               /\ \A p \in result' :
                    IF p[1] = FirstExpected(tool)
                    THEN p[2] = _process_value(args_list[arg_i])
                    ELSE p \in result
          ELSE result' = result]_vars

\* move_camera after "--n=-5 10": the flag's key is kept and the bare token
\* went, as an integer, to location, the first of the two expected parameters
C11_Witness ==
  /\ pc = "loop" /\ tool = MOVE_CAMERA /\ arg_i = 3
  /\ args_list = <<Cs(<<"-", "-", "n", "=", "-", "5">>), Cs(<<"1", "0">>)>>
  /\ result = {<<Str(Cs(<<"n">>)), Num(0 - 5)>>, <<Str(K_LOCATION), Num(10)>>}

\* file names and code texts written after the script tool's options
SHORTCUT_FILES == {Cs(<<"a", ".", "p", "y">>)}
SHORTCUT_CODES == {Cs(<<"p", "x5C", "n">>)}

\* C12: for execute_python_script, --script="<code>" returns exactly the
\* mapping of script to the code with its escapes restored, and
\* --path=<file>, with the file bare or in single or in double quotes, returns
\* exactly the mapping of path to the file without the quotes.
C12_ScriptShortcuts ==
  (pc = "return" /\ tool = EXECUTE_PYTHON_SCRIPT) =>
    /\ \A code \in SHORTCUT_CODES :
         raw = OPT_SCRIPT \o <<DQ>> \o code \o <<DQ>> =>
           out = Dict1(K_SCRIPT, Str(ProcessEscapes(code)))
    /\ \A file \in SHORTCUT_FILES : \A q \in {<<>>, <<SQ>>, <<DQ>>} :
         raw = OPT_PATH \o q \o file \o q => out = Dict1(K_PATH, Str(file))

\* C13: for execute_python_script given --script="$(cat <file>)", the call
\* returns the mapping of script to the file's contents or to the placeholder
\* comment that names the file, and raises in no state of the file system.
C13_MissingFileDegrades ==
  (pc = "return" /\ tool = EXECUTE_PYTHON_SCRIPT /\ SearchCat(raw, 1).hit) =>
    \/ out = Dict1(K_SCRIPT, Str(FILE_TEXT))
    \/ out = Dict1(K_SCRIPT, Str(NOT_FOUND \o CatFile(raw)))

\* a text that parses as a decimal number: one float() accepts that holds a digit
IsDecimalText(v) ==
  IsFloatText(Lower(Strip(v))) /\ \E k \in 1..Len(v) : IsDigit(v[k])

\* the value section 4.5 gives a token: outer quotes stripped, then boolean,
\* integer, float or the text as it is
Coerced(token) ==
  LET Classified(v) ==
        IF Lower(v) \in {W_TRUE, W_FALSE} THEN Bool(Lower(v) = W_TRUE)
        ELSE IF IsDigitStr(v) \/ (StartsWith(v, <<MINUS>>) /\ IsDigitStr(From(v, 2)))
             THEN int(v)
        ELSE IF IsDecimalText(v) THEN Float(Strip(v))
        ELSE Str(v)
  IN Classified(_strip_outer_quotes(token))

\* C14: the value a pass of the loop assigns is the token's value coerced
\* without raising: outer quotes stripped once, true/false in any case a
\* boolean, digits with an optional leading '-' an integer, otherwise a
\* decimal number a float, and every other token the unchanged string.
C14_ValueCoercion ==
  [][(pc = "loop" /\ arg_i <= Len(args_list)) =>
       LET Assigned(k, token) == Get(Obj(result'), k) = Coerced(token)
           Pass(a) ==
             IF IsFlag(a) /\ Contains(a, <<EQ>>) THEN Assigned(FlagKey(a), FlagValue(a))
             ELSE IF IsFlag(a)
                  THEN arg_i + 1 <= Len(args_list) =>
                         Assigned(From(a, 3), args_list[arg_i + 1])
             ELSE HasExpected(tool) => Assigned(supported_tools[tool][1], a)
       IN Pass(args_list[arg_i])]_vars

\* ---------------------------------------------------------------------------
\* _process_escape_sequences applied to a text and again to what it returned
\* ---------------------------------------------------------------------------

MaxEscLen == 4

EscChars == {BSL, Ord("n"), Ord("t"), Ord("r"), DQ, SQ, Ord("a")}

RECURSIVE EscTexts(_)
EscTexts(n) ==
  IF n = 0 THEN {<<>>}
  ELSE LET W == EscTexts(n - 1) IN W \cup {<<c>> \o w : c \in EscChars, w \in W}

InitEscapes ==
  /\ shape = "escapes"
  /\ parts = <<>>
  /\ raw \in EscTexts(MaxEscLen)
  /\ tool = EXECUTE_PYTHON_SCRIPT
  /\ pc = "call"
  /\ s_norm = <<>>
  /\ out = None
  /\ args_list = <<>> /\ arg_i = 0 /\ result = {}

\* _process_escape_sequences(text)
Restore ==
  /\ pc = "call"
  /\ s_norm' = _process_escape_sequences(Str(raw))[2] /\ pc' = "again"
  /\ UNCHANGED <<shape, parts, raw, tool, out, cli_vars>>

\* _process_escape_sequences of what the first call returned
RestoreAgain ==
  /\ pc = "again"
  /\ out' = _process_escape_sequences(Str(s_norm)) /\ pc' = "return"
  /\ UNCHANGED <<shape, parts, raw, tool, s_norm, cli_vars>>

NextEscapes == Restore \/ RestoreAgain

SpecEscapes == InitEscapes /\ [][NextEscapes]_vars

\* the characters that follow a backslash in the six escaped forms
EscapeLetters == {Ord("n"), Ord("t"), Ord("r"), DQ, SQ, BSL}

\* nested escaping: an escaped backslash in front of a character that a
\* backslash escapes
NestedEscaping(s) ==
  \E k \in 1..(Len(s) - 2) :
    s[k] = BSL /\ s[k + 1] = BSL /\ s[k + 2] \in EscapeLetters

\* C15: the restored text is the six replacements applied one after the
\* other, each over the whole text: newline, tab, carriage return, double
\* quote, single quote and the escaped backslash last; and for a text without
\* nested escaping, restoring the restored text changes nothing.
C15_EscapeFixpoint ==
  LET N(t) == Replace(t, <<BSL, Ord("n")>>, <<NL>>)
      T(t) == Replace(t, <<BSL, Ord("t")>>, <<TAB>>)
      R(t) == Replace(t, <<BSL, Ord("r")>>, <<CR>>)
      D(t) == Replace(t, <<BSL, DQ>>, <<DQ>>)
      S(t) == Replace(t, <<BSL, SQ>>, <<SQ>>)
      B(t) == Replace(t, <<BSL, BSL>>, <<BSL>>)
  IN /\ (shape = "escapes" /\ pc \in {"again", "return"}) =>
          s_norm = B(S(D(R(T(N(raw))))))
     /\ (shape = "escapes" /\ pc = "return" /\ ~NestedEscaping(raw)) =>
          out = Str(s_norm)

\* an escaped newline and an escaped backslash, restored twice
C15_Witness ==
  /\ shape = "escapes" /\ pc = "return"
  /\ raw = <<BSL, Ord("n"), BSL, BSL>>
  /\ s_norm = <<NL, BSL>> /\ out = Str(<<NL, BSL>>)

\* C16: a doubly-escaped sequence, two backslashes in front of n, t, r or a
\* double quote, is restored to the single character its singly-escaped form
\* is restored to, and no backslash is left.
C16_DoubleEscapeTolerance ==
  (shape = "escapes" /\ pc \in {"again", "return"}) =>
    \A c \in {Ord("n"), Ord("t"), Ord("r"), DQ} :
      raw = <<BSL, BSL, c>> =>
        s_norm = ProcessEscapes(<<BSL, c>>) /\ BSL \notin Chars(s_norm)

\* the text strategy 8 takes for the script: the content of a trailing
\* "script": "<content>" fragment, otherwise the text without its outer quotes
ScriptPayload(s) ==
  LET Content(s2, m) == IF m.hit THEN m.g ELSE s2
      Payload(s2) == Content(s2, SearchBrokenScript(s2, 1))
  IN Payload(_strip_outer_quotes(s))

\* C17: for execute_python_script, once strategies 1 to 7 have failed, the
\* call returns the mapping of script to the six-replacement restoration of
\* the payload: no numeric or unicode escape is decoded and non-ASCII
\* characters are kept.
C17_ScriptFallback ==
  [][(shape # "flags" /\ pc = StrategyPc[8] /\ tool = EXECUTE_PYTHON_SCRIPT) =>
       /\ pc' = "return"
       /\ out' = Dict1(K_SCRIPT, Str(ProcessEscapes(ScriptPayload(s_norm))))]_vars

\* tool names other than execute_python_script
OtherTools == {API_DOC_QUERY, MOVE_CAMERA, "unknown_tool"}

\* the number of the strategy that resolves the text for the tool
ResolvingStrategy(x, tool_name) ==
  LET results == <<Strategy1(x, tool_name), Strategy2(x, tool_name),
                   Strategy3(x, tool_name), Strategy4(x, tool_name),
                   Strategy5(x, tool_name), Strategy6(x, tool_name),
                   Strategy7(x, tool_name), Strategy8(x, tool_name),
                   Strategy9(x, tool_name)>>
  IN Min({k \in 1..9 : ~IsNone(results[k])})

\* C18: what the call returns for a tool other than execute_python_script is
\* what it returns for every other such tool; and for a text that strategy 1,
\* 3, 4, 5, 6 or 7 resolves it is what the call returns for every tool,
\* execute_python_script included.
C18_ToolNonInterference ==
  (shape \notin {"flags", "escapes"} /\ pc = "return") =>
    /\ tool # EXECUTE_PYTHON_SCRIPT =>
         \A t \in OtherTools : out = robust_parse_third_arg(raw, t)
    /\ (~IsBlank(raw) /\ ResolvingStrategy(_normalize(raw), tool) \in {1, 3, 4, 5, 6, 7}) =>
         \A t \in OtherTools \cup {EXECUTE_PYTHON_SCRIPT} :
           out = robust_parse_third_arg(raw, t)

\* a fence of code returned under the key value for api_doc_query, where
\* execute_python_script gets the key script
C18_Witness ==
  /\ pc = "return" /\ shape = "fence" /\ tool = API_DOC_QUERY
  /\ HasKey(out, K_VALUE)
  /\ HasKey(robust_parse_third_arg(raw, EXECUTE_PYTHON_SCRIPT), K_SCRIPT)

\* the key the tokenization fallback uses for a tool
FallbackKey(tool_name) ==
  IF tool_name \in DOMAIN supported_tools /\ supported_tools[tool_name] # <<>>
  THEN supported_tools[tool_name][1]
  ELSE K_VALUE

\* C19: in the generic path, when shlex cannot split the raw text, the call
\* returns without raising a result of exactly one key: the tool's first
\* expected parameter, or value for an unknown tool or a tool without
\* expected parameters, mapped to the whole stripped raw text; no flag of the
\* text is in the result.
C19_TokenizationFallback ==
  [][(pc = "cli" /\ tool # EXECUTE_PYTHON_SCRIPT /\ ~shlex_split(raw).ok) =>
       /\ pc' = "return"
       /\ out' = Obj({<<Str(FallbackKey(tool)), Str(Strip(raw))>>})
       /\ Cardinality(Keys(out')) = 1]_vars

\* move_camera given a flag and then an unbalanced quote: the whole text
\* under location, and no key n
C19_Witness ==
  /\ pc = "return" /\ tool = MOVE_CAMERA
  /\ raw = Cs(<<"-", "-", "n", "=", "-", "5", " ", "x27">>)
  /\ out = Dict1(K_LOCATION, Str(raw))

\* C20: for a raw text that is a JSON object, and for an empty or
\* whitespace-only one, robust_parse_third_arg of argparse_parser returns the
\* mapping that robust_parse_third_arg of params_parser returns.
C20_ParsersAgree ==
  (shape = "flags" /\ pc = "return" /\ (IsBlank(raw) \/ IsDict(json_loads(raw)))) =>
    out = robust_parse_third_arg(raw, tool)

=============================================================================
